---- MODULE Spec2Model ----
(***************************************************************************)
(* A model of the OpenPose keypoint transforms (filter, move, attach,      *)
(* merge, temporal smoothing) and of the Python object store they work on. *)
(*                                                                         *)
(* Python lists and dicts are mutable objects with an identity, so the     *)
(* model keeps an object store: heap is a sequence of objects and an       *)
(* object's address is its index.  A transform is an operator from a heap  *)
(* and argument addresses to a new heap, a returned address and the        *)
(* exception raised ("none" when it returns normally).                     *)
(*                                                                         *)
(* Numbers: coordinates are integers (pixels) and a confidence is an       *)
(* integer number of tenths (0.9 is 9); the code only adds offsets to      *)
(* coordinates and compares confidences with 0.  A Python index p of a     *)
(* list is index p + 1 of the sequence that models it.                     *)
(***************************************************************************)
EXTENDS Integers, Sequences, FiniteSets, TLC

VARIABLES heap,      \* the object store
          before,    \* the object store when the last call started
          inputs,    \* addresses of the values the host graph holds
          pc,        \* "idle", or the transform that has run
          call,      \* the arguments of the call that has run
          result,    \* the address the call returned, 0 when it raised
          err        \* the exception the call raised, "none" otherwise

vars == <<heap, before, inputs, pc, call, result, err>>

(***************************************************************************)
(* Bounds of the model.                                                    *)
(***************************************************************************)
MaxFrames == 3
MaxPeople == 2
\* bits in the significand of a float
Precision == 16

(***************************************************************************)
(* The object store.                                                       *)
(***************************************************************************)
EmptyFields == [k \in {} |-> 0]

\* Python's None singleton lives at this address of every heap.
NoneAddr == 1

NoneObj == [kind |-> "none", items |-> <<>>, fields |-> EmptyFields]
\* a list of objects (frames, people): items are addresses
ListObj(items) == [kind |-> "list", items |-> items, fields |-> EmptyFields]
\* a list of numbers (keypoint array, offset list, index list): items are numbers
NumsObj(items) == [kind |-> "nums", items |-> items, fields |-> EmptyFields]
\* a dict: fields maps each key present to a number, a boolean or an address
DictObj(fields) == [kind |-> "dict", items |-> <<>>, fields |-> fields]

\* the keys of the data model whose value is an object
RefKeys == {"people", "pose_keypoints_2d", "hand_left_keypoints_2d",
            "hand_right_keypoints_2d", "face_keypoints_2d", "body_indices"}

\* dicts iterate in insertion order; frames are built in this order

NewAddr(h) == Len(h) + 1
Alloc(h, o) == Append(h, o)

Has(h, d, k) == k \in DOMAIN h[d].fields
SetField(h, d, k, v) ==
  [h EXCEPT ![d].fields = [x \in (DOMAIN @) \cup {k} |-> IF x = k THEN v ELSE @[x]]]

\* the outcome of a step: the heap it leaves, the exception it raised ("none" when
\* it completed) and the address it returned
Ok(h) == [heap |-> h, err |-> "none", ret |-> 0]
Raise(h, e) == [heap |-> h, err |-> e, ret |-> 0]
Ret(h, a) == [heap |-> h, err |-> "none", ret |-> a]
Failed(s) == s.err # "none"

\* a local name bound to a value once: x = v, then the statements F that use x
With(v, F(_)) == F(v)

SeqToSet(s) == {s[i] : i \in DOMAIN s}

(***************************************************************************)
(* copy.deepcopy on tree-shaped values: every list and dict reachable is   *)
(* copied to a fresh object; None and numbers are not copied.              *)
(***************************************************************************)
\* a faulty deepcopy that hands back the object itself; InputsUntouched must reject it
NoCopy(h, a) == Ret(h, a)

RECURSIVE deepcopy(_, _)
RECURSIVE CopyItems(_, _, _, _)
RECURSIVE CopyFields(_, _, _, _)

\* copies items[i..], returns [heap, items]
CopyItems(h, items, i, acc) ==
  IF i > Len(items) THEN [heap |-> h, items |-> acc]
  ELSE LET c == deepcopy(h, items[i])
       IN IF Failed(c) THEN [heap |-> c.heap, items |-> acc]
          ELSE CopyItems(c.heap, items, i + 1, Append(acc, c.ret))

\* copies the object-valued fields named in todo, returns [heap, fields]
CopyFields(h, fields, todo, acc) ==
  IF todo = {} THEN [heap |-> h, fields |-> acc]
  ELSE LET k == CHOOSE x \in todo : TRUE
           c == deepcopy(h, fields[k])
       IN IF Failed(c) THEN [heap |-> c.heap, fields |-> acc]
          ELSE CopyFields(c.heap, fields, todo \ {k}, [acc EXCEPT ![k] = c.ret])

deepcopy(h, a) ==
  LET o == h[a] IN
  CASE o.kind = "none" -> Ret(h, a)
    [] o.kind = "nums" -> Ret(Alloc(h, o), NewAddr(h))
    [] o.kind = "list" ->
         LET c == CopyItems(h, o.items, 1, <<>>)
         IN Ret(Alloc(c.heap, ListObj(c.items)), NewAddr(c.heap))
    [] o.kind = "dict" ->
         LET c == CopyFields(h, o.fields, DOMAIN o.fields \cap RefKeys, o.fields)
         IN Ret(Alloc(c.heap, DictObj(c.fields)), NewAddr(c.heap))

(***************************************************************************)
(* What the caller can observe of a value: the value an address denotes    *)
(* (Val, identities forgotten) and the mutable objects it is made of       *)
(* (Reach).                                                                *)
(***************************************************************************)
RECURSIVE Val(_, _)
Val(h, a) ==
  LET o == h[a] IN
  CASE o.kind = "none" -> o
    [] o.kind = "nums" -> o
    [] o.kind = "list" -> ListObj([i \in DOMAIN o.items |-> Val(h, o.items[i])])
    [] o.kind = "dict" ->
         DictObj([k \in DOMAIN o.fields |->
                    IF k \in RefKeys THEN Val(h, o.fields[k]) ELSE o.fields[k]])

RECURSIVE Reach(_, _)
Reach(h, a) ==
  LET o == h[a] IN
  CASE o.kind = "none" -> {}
    [] o.kind = "nums" -> {a}
    [] o.kind = "list" -> {a} \cup UNION {Reach(h, o.items[i]) : i \in DOMAIN o.items}
    [] o.kind = "dict" ->
         {a} \cup UNION {Reach(h, o.fields[k]) : k \in DOMAIN o.fields \cap RefKeys}

(***************************************************************************)
(* body_part_definitions.py: the catalog of named groups of body keypoint  *)
(* indices (COCO 18-keypoint order).                                       *)
(***************************************************************************)
NumBodyKeypoints == 18

\* list(range(n))
RangeList(n) == [i \in 1..n |-> i - 1]

BODY_PART_GROUPS ==
  [left_upper_arm   |-> <<5, 6>>,
   left_forearm     |-> <<6, 7>>,
   left_full_arm    |-> <<5, 6, 7>>,
   right_upper_arm  |-> <<2, 3>>,
   right_forearm    |-> <<3, 4>>,
   right_full_arm   |-> <<2, 3, 4>>,
   left_upper_leg   |-> <<11, 12>>,
   left_lower_leg   |-> <<12, 13>>,
   left_full_leg    |-> <<11, 12, 13>>,
   right_upper_leg  |-> <<8, 9>>,
   right_lower_leg  |-> <<9, 10>>,
   right_full_leg   |-> <<8, 9, 10>>,
   left_foot        |-> <<13>>,
   right_foot       |-> <<10>>,
   torso            |-> <<1, 2, 5, 8, 11>>,
   shoulders        |-> <<2, 5>>,
   head             |-> <<0, 14, 15, 16, 17>>,
   head_and_neck    |-> <<0, 1, 14, 15, 16, 17>>,
   upper_body       |-> <<0, 1, 2, 3, 4, 5, 6, 7, 14, 15, 16, 17>>,
   lower_body       |-> <<8, 9, 10, 11, 12, 13>>,
   arms             |-> <<2, 3, 4, 5, 6, 7>>,
   legs             |-> <<8, 9, 10, 11, 12, 13>>,
   left_side        |-> <<5, 6, 7, 11, 12, 13, 15, 17>>,
   right_side       |-> <<2, 3, 4, 8, 9, 10, 14, 16>>,
   all              |-> RangeList(NumBodyKeypoints)]

\* BODY_PART_GROUPS.get(name, default)
GroupsGet(name, default) ==
  IF name \in DOMAIN BODY_PART_GROUPS THEN BODY_PART_GROUPS[name] ELSE default

get_body_part_indices(part_name) == GroupsGet(part_name, <<>>)

(***************************************************************************)
(* PoseKeypointSelectorNode.create_selection.  kwargs is the function from *)
(* the toggles the caller passed to their values.                          *)
(***************************************************************************)
KwGet(kwargs, k, default) == IF k \in DOMAIN kwargs THEN kwargs[k] ELSE default

\* sorted(list(S)) for a set of integers
RECURSIVE Sorted(_)
Sorted(S) ==
  IF S = {} THEN <<>>
  ELSE LET m == CHOOSE x \in S : \A y \in S : x <= y
       IN <<m>> \o Sorted(S \ {m})

NoFaceTypes == {"lower_body", "legs", "left_full_leg", "right_full_leg",
                "left_foot", "right_foot"}

\* the custom indices with every checkbox that is not passed read as off
CustomIndicesUnpassedOff(kwargs) ==
  (IF KwGet(kwargs, "include_head", FALSE) THEN SeqToSet(BODY_PART_GROUPS["head"]) ELSE {})
  \cup (IF KwGet(kwargs, "include_neck", FALSE) THEN {1} ELSE {})
  \cup (IF KwGet(kwargs, "include_torso", FALSE) THEN SeqToSet(BODY_PART_GROUPS["torso"]) ELSE {})
  \cup (IF KwGet(kwargs, "include_left_arm", FALSE) THEN SeqToSet(BODY_PART_GROUPS["left_full_arm"]) ELSE {})
  \cup (IF KwGet(kwargs, "include_right_arm", FALSE) THEN SeqToSet(BODY_PART_GROUPS["right_full_arm"]) ELSE {})
  \cup (IF KwGet(kwargs, "include_left_leg", FALSE) THEN SeqToSet(BODY_PART_GROUPS["left_full_leg"]) ELSE {})
  \cup (IF KwGet(kwargs, "include_right_leg", FALSE) THEN SeqToSet(BODY_PART_GROUPS["right_full_leg"]) ELSE {})

CustomIndices(kwargs) ==
  (IF KwGet(kwargs, "include_head", TRUE) THEN SeqToSet(BODY_PART_GROUPS["head"]) ELSE {})
  \cup (IF KwGet(kwargs, "include_neck", TRUE) THEN {1} ELSE {})
  \cup (IF KwGet(kwargs, "include_torso", TRUE) THEN SeqToSet(BODY_PART_GROUPS["torso"]) ELSE {})
  \cup (IF KwGet(kwargs, "include_left_arm", TRUE) THEN SeqToSet(BODY_PART_GROUPS["left_full_arm"]) ELSE {})
  \cup (IF KwGet(kwargs, "include_right_arm", TRUE) THEN SeqToSet(BODY_PART_GROUPS["right_full_arm"]) ELSE {})
  \cup (IF KwGet(kwargs, "include_left_leg", TRUE) THEN SeqToSet(BODY_PART_GROUPS["left_full_leg"]) ELSE {})
  \cup (IF KwGet(kwargs, "include_right_leg", TRUE) THEN SeqToSet(BODY_PART_GROUPS["right_full_leg"]) ELSE {})

\* returns the heap with the selection dict and its index list allocated
create_selection(h, selection_type, kwargs) ==
  LET body_indices ==
        IF selection_type = "custom" THEN Sorted(CustomIndices(kwargs))
        ELSE GroupsGet(selection_type, RangeList(NumBodyKeypoints))
      include_face ==
        IF selection_type # "custom" /\ selection_type \in NoFaceTypes THEN FALSE
        ELSE KwGet(kwargs, "include_face", TRUE)
      h1 == Alloc(h, NumsObj(body_indices))
  IN Ret(Alloc(h1, DictObj([body_indices       |-> NewAddr(h),
                            include_face       |-> include_face,
                            include_left_hand  |-> KwGet(kwargs, "include_left_hand", TRUE),
                            include_right_hand |-> KwGet(kwargs, "include_right_hand", TRUE)])),
         NewAddr(h1))

\* POSE_SELECTION.get(key, default) for a flag
SelGet(h, sel, key, default) == IF Has(h, sel, key) THEN h[sel].fields[key] ELSE default

\* set(POSE_SELECTION.get("body_indices", []))
SelBodyIndices(h, sel) ==
  IF Has(h, sel, "body_indices") THEN SeqToSet(h[h[sel].fields["body_indices"]].items) ELSE {}

(***************************************************************************)
(* PoseKeypointFilterNode.                                                 *)
(***************************************************************************)
\* a faulty loop that forgets the invert flag; FilterBody must reject it
FilterLoopNoInvert(filtered, i, keep_indices, invert) ==
  [items |-> [p \in DOMAIN filtered |->
                IF p % 3 = 0 /\ ((p \div 3) - 1) \notin keep_indices THEN 0 ELSE filtered[p]],
   err |-> "none"]

\* the loop of _filter_keypoints over the flat list, from Python index i
RECURSIVE FilterLoop(_, _, _, _)
FilterLoop(filtered, i, keep_indices, invert) ==
  IF i >= Len(filtered) THEN [items |-> filtered, err |-> "none"]
  ELSE LET keypoint_idx == i \div 3
           in_keep == keypoint_idx \in keep_indices
           should_keep == IF invert THEN ~in_keep ELSE in_keep
       IN IF should_keep THEN FilterLoop(filtered, i + 3, keep_indices, invert)
          ELSE IF i + 2 >= Len(filtered) THEN [items |-> filtered, err |-> "IndexError"]
          ELSE FilterLoop([filtered EXCEPT ![i + 3] = 0], i + 3, keep_indices, invert)

_filter_keypoints(h, keypoints, keep_indices, invert) ==
  IF h[keypoints].kind = "none" THEN Ret(h, keypoints)
  ELSE LET r == FilterLoop(h[keypoints].items, 0, keep_indices, invert)
       IN [heap |-> Alloc(h, NumsObj(r.items)), err |-> r.err, ret |-> NewAddr(h)]

\* a faulty loop that flips every confidence between zero and non-zero instead of
\* zeroing it; FilterIdempotent must reject it
ToggleLoop(res, i) ==
  [p \in DOMAIN res |-> IF p % 3 = 0 THEN (IF res[p] = 0 THEN 1 ELSE 0) ELSE res[p]]

\* a faulty loop that zeroes x and y along with the confidence
ZeroLoopWholeTriplet(res, i) == [p \in DOMAIN res |-> 0]

\* the loop of _zero_all_keypoints over the flat list, from Python index i
RECURSIVE ZeroLoop(_, _)
ZeroLoop(res, i) ==
  IF i >= Len(res) THEN res ELSE ZeroLoop([res EXCEPT ![i + 1] = 0], i + 3)

\* a faulty _zero_all_keypoints that zeroes the first keypoint only; FilterGroups
\* must reject it
ZeroFirstKeypoint(h, keypoints) ==
  IF h[keypoints].kind = "none" THEN Ret(h, keypoints)
  ELSE Ret(Alloc(h, NumsObj([p \in DOMAIN h[keypoints].items |->
                               IF p = 3 THEN 0 ELSE h[keypoints].items[p]])),
           NewAddr(h))

_zero_all_keypoints(h, keypoints) ==
  IF h[keypoints].kind = "none" THEN Ret(h, keypoints)
  ELSE Ret(Alloc(h, NumsObj(ZeroLoop(h[keypoints].items, 2))), NewAddr(h))

\* if key in person: person[key] = _zero_all_keypoints(person[key])
ZeroGroup(s, person, key) ==
  IF Failed(s) \/ ~Has(s.heap, person, key) THEN s
  ELSE With(_zero_all_keypoints(s.heap, s.heap[person].fields[key]),
            LAMBDA r : Ok(SetField(r.heap, person, key, r.ret)))

\* the body of filter_pose's loop over people, for one person of the copy
FilterPerson(h, person, POSE_SELECTION, body_indices, invert_selection) ==
  With(IF Has(h, person, "pose_keypoints_2d")
       THEN With(_filter_keypoints(h, h[person].fields["pose_keypoints_2d"],
                                   body_indices, invert_selection),
                 LAMBDA r : IF Failed(r) THEN r
                            ELSE Ok(SetField(r.heap, person, "pose_keypoints_2d", r.ret)))
       ELSE Ok(h), LAMBDA s1 :
  \* Python parses "not a != b" as "not (a != b)"
  With(IF ~(SelGet(h, POSE_SELECTION, "include_left_hand", TRUE) # invert_selection)
       THEN ZeroGroup(s1, person, "hand_left_keypoints_2d") ELSE s1, LAMBDA s2 :
  With(IF ~(SelGet(h, POSE_SELECTION, "include_right_hand", TRUE) # invert_selection)
       THEN ZeroGroup(s2, person, "hand_right_keypoints_2d") ELSE s2, LAMBDA s3 :
  IF ~(SelGet(h, POSE_SELECTION, "include_face", TRUE) # invert_selection)
  THEN ZeroGroup(s3, person, "face_keypoints_2d") ELSE s3)))

\* people_to_edit: range(len(people)) when person_index is -1, else [person_index]
PeopleToEdit(n, person_index) ==
  IF person_index = -1 THEN RangeList(n) ELSE <<person_index>>

RECURSIVE FilterPeople(_, _, _, _, _, _, _)
FilterPeople(s, people, todo, k, POSE_SELECTION, body_indices, invert_selection) ==
  IF Failed(s) \/ k > Len(todo) THEN s
  ELSE LET person_idx == todo[k]
           n == Len(s.heap[people].items)
       IN IF person_idx >= n
          THEN FilterPeople(s, people, todo, k + 1, POSE_SELECTION, body_indices, invert_selection)
          ELSE FilterPeople(FilterPerson(s.heap, s.heap[people].items[person_idx + 1],
                                         POSE_SELECTION, body_indices, invert_selection),
                            people, todo, k + 1, POSE_SELECTION, body_indices, invert_selection)

RECURSIVE FilterFrames(_, _, _, _, _, _, _)
FilterFrames(s, frames, f, POSE_SELECTION, body_indices, person_index, invert_selection) ==
  IF Failed(s) \/ f > Len(frames) THEN s
  ELSE LET frame == frames[f]
       IN IF ~Has(s.heap, frame, "people")
          THEN FilterFrames(s, frames, f + 1, POSE_SELECTION, body_indices,
                            person_index, invert_selection)
          ELSE LET people == s.heap[frame].fields["people"]
                   todo == PeopleToEdit(Len(s.heap[people].items), person_index)
               IN FilterFrames(FilterPeople(s, people, todo, 1, POSE_SELECTION,
                                            body_indices, invert_selection),
                               frames, f + 1, POSE_SELECTION, body_indices,
                               person_index, invert_selection)

\* "for frame in pose_data" when pose_data is a dict: the loop runs over its keys,
\* strings.  'people' not in frame is then a substring test, false only for the key
\* "people", and frame['people'] indexes a string with a string: TypeError.
DictLoop(h, pose_data) ==
  IF Has(h, pose_data, "people") THEN Raise(h, "TypeError") ELSE Ok(h)

filter_pose(h, POSE_KEYPOINT, POSE_SELECTION, person_index, invert_selection) ==
  With(deepcopy(h, POSE_KEYPOINT), LAMBDA pose_data :
  With(SelBodyIndices(h, POSE_SELECTION), LAMBDA body_indices :
  With(IF pose_data.heap[pose_data.ret].kind = "dict"
       THEN DictLoop(pose_data.heap, pose_data.ret)
       ELSE FilterFrames(Ok(pose_data.heap), pose_data.heap[pose_data.ret].items, 1,
                         POSE_SELECTION, body_indices, person_index, invert_selection),
       LAMBDA s : [heap |-> s.heap, err |-> s.err, ret |-> pose_data.ret])))

(***************************************************************************)
(* PoseKeypointMoverNode.  An offset argument is a number or a list of     *)
(* numbers: Scalar(x) or ListArg(address of the list).                     *)
(***************************************************************************)
Scalar(x) == [islist |-> FALSE, v |-> x]
ListArg(a) == [islist |-> TRUE, v |-> a]

Min(a, b) == IF a < b THEN a ELSE b

\* [x] * n
Repeat(x, n) == [i \in 1..n |-> x]

\* a faulty _normalize_to_list that pads with the last element under every policy;
\* LoopAndRepeatOffsets must reject it
NormalizeHoldLast(h, value, target_length, behavior) ==
  IF ~value.islist
  THEN Ret(Alloc(h, NumsObj(Repeat(value.v, target_length))), NewAddr(h))
  ELSE LET items == h[value.v].items
       IN Ret(Alloc(h, NumsObj([i \in 1..target_length |->
                                  IF Len(items) = 0 THEN 0 ELSE items[Min(i, Len(items))]])),
              NewAddr(h))

\* returns the address of a list: value itself when its length already matches
_normalize_to_list(h, value, target_length, behavior) ==
  IF ~value.islist
  THEN Ret(Alloc(h, NumsObj(Repeat(value.v, target_length))), NewAddr(h))
  ELSE LET items == h[value.v].items
           truncated == Ret(Alloc(h, NumsObj(SubSeq(items, 1, Min(target_length, Len(items))))),
                            NewAddr(h))
       IN IF Len(items) = target_length THEN Ret(h, value.v)
          ELSE IF behavior = "truncate" THEN truncated
          ELSE IF behavior = "loop"
          THEN IF target_length > 0 /\ Len(items) = 0 THEN Raise(h, "ZeroDivisionError")
               ELSE Ret(Alloc(h, NumsObj([i \in 1..target_length |->
                                            items[((i - 1) % Len(items)) + 1]])),
                        NewAddr(h))
          ELSE IF behavior = "repeat"
          THEN IF Len(items) = 0
               THEN Ret(Alloc(h, NumsObj(Repeat(0, target_length))), NewAddr(h))
               ELSE Ret(Alloc(h, NumsObj(items \o Repeat(items[Len(items)],
                                                         target_length - Len(items)))),
                        NewAddr(h))
          ELSE truncated

\* a faulty loop that moves selected keypoints whatever their confidence; MoveBody
\* must reject it
OffsetLoopUngated(res, i, indices, x_offset, y_offset) ==
  [items |-> [p \in DOMAIN res |->
                IF ((p - 1) \div 3) \notin indices THEN res[p]
                ELSE CASE (p - 1) % 3 = 0 -> res[p] + x_offset
                       [] (p - 1) % 3 = 1 -> res[p] + y_offset
                       [] OTHER -> res[p]],
   err |-> "none"]

\* the loop of _apply_offset over the flat list, from Python index i
RECURSIVE OffsetLoop(_, _, _, _, _)
OffsetLoop(res, i, indices, x_offset, y_offset) ==
  IF i >= Len(res) THEN [items |-> res, err |-> "none"]
  ELSE LET keypoint_idx == i \div 3
       IN IF keypoint_idx \notin indices THEN OffsetLoop(res, i + 3, indices, x_offset, y_offset)
          ELSE IF i + 2 >= Len(res) THEN [items |-> res, err |-> "IndexError"]
          ELSE IF res[i + 3] > 0
          THEN OffsetLoop([res EXCEPT ![i + 1] = @ + x_offset, ![i + 2] = @ + y_offset],
                          i + 3, indices, x_offset, y_offset)
          ELSE OffsetLoop(res, i + 3, indices, x_offset, y_offset)

_apply_offset(h, keypoints, indices, x_offset, y_offset) ==
  IF h[keypoints].kind = "none" THEN Ret(h, keypoints)
  ELSE LET r == OffsetLoop(h[keypoints].items, 0, indices, x_offset, y_offset)
       IN [heap |-> Alloc(h, NumsObj(r.items)), err |-> r.err, ret |-> NewAddr(h)]

\* the loop of _apply_offset_all over the flat list, from Python index i
RECURSIVE OffsetAllLoop(_, _, _, _)
OffsetAllLoop(res, i, x_offset, y_offset) ==
  IF i >= Len(res) THEN [items |-> res, err |-> "none"]
  ELSE IF i + 2 >= Len(res) THEN [items |-> res, err |-> "IndexError"]
  ELSE IF res[i + 3] > 0
  THEN OffsetAllLoop([res EXCEPT ![i + 1] = @ + x_offset, ![i + 2] = @ + y_offset],
                     i + 3, x_offset, y_offset)
  ELSE OffsetAllLoop(res, i + 3, x_offset, y_offset)

_apply_offset_all(h, keypoints, x_offset, y_offset) ==
  IF h[keypoints].kind = "none" THEN Ret(h, keypoints)
  ELSE LET r == OffsetAllLoop(h[keypoints].items, 0, x_offset, y_offset)
       IN [heap |-> Alloc(h, NumsObj(r.items)), err |-> r.err, ret |-> NewAddr(h)]

\* if move and key in person: person[key] = _apply_offset_all(person[key], x, y)
MoveGroup(s, move, person, key, current_x, current_y) ==
  IF Failed(s) \/ ~move \/ ~Has(s.heap, person, key) THEN s
  ELSE LET r == _apply_offset_all(s.heap, s.heap[person].fields[key], current_x, current_y)
       IN IF Failed(r) THEN r ELSE Ok(SetField(r.heap, person, key, r.ret))

\* a faulty scope that moves hands and face whenever affect_hands/affect_face is set,
\* without the wrist and head membership tests; MoveGroups must reject it
MoveScopeNoMembership(h, POSE_SELECTION, appendage_type, affect_hands, affect_face) ==
  [body_indices    |-> IF POSE_SELECTION # NoneAddr THEN SelBodyIndices(h, POSE_SELECTION)
                       ELSE SeqToSet(GroupsGet(appendage_type, RangeList(NumBodyKeypoints))),
   move_left_hand  |-> (POSE_SELECTION # NoneAddr
                        /\ SelGet(h, POSE_SELECTION, "include_left_hand", FALSE)) \/ affect_hands,
   move_right_hand |-> (POSE_SELECTION # NoneAddr
                        /\ SelGet(h, POSE_SELECTION, "include_right_hand", FALSE)) \/ affect_hands,
   move_face       |-> (POSE_SELECTION # NoneAddr
                        /\ SelGet(h, POSE_SELECTION, "include_face", FALSE)) \/ affect_face]

\* what move_keypoints moves: scope.body_indices and the three group flags
MoveScope(h, POSE_SELECTION, appendage_type, affect_hands, affect_face) ==
  LET body_indices ==
        IF POSE_SELECTION # NoneAddr THEN SelBodyIndices(h, POSE_SELECTION)
        ELSE SeqToSet(GroupsGet(appendage_type, RangeList(NumBodyKeypoints)))
      head == \E i \in {0, 14, 15, 16, 17} : i \in body_indices
  IN IF POSE_SELECTION # NoneAddr
     THEN [body_indices    |-> body_indices,
           move_left_hand  |-> SelGet(h, POSE_SELECTION, "include_left_hand", FALSE)
                               \/ (affect_hands /\ 7 \in body_indices),
           move_right_hand |-> SelGet(h, POSE_SELECTION, "include_right_hand", FALSE)
                               \/ (affect_hands /\ 4 \in body_indices),
           move_face       |-> SelGet(h, POSE_SELECTION, "include_face", FALSE)
                               \/ (affect_face /\ head)]
     ELSE [body_indices    |-> body_indices,
           move_left_hand  |-> affect_hands /\ 7 \in body_indices,
           move_right_hand |-> affect_hands /\ 4 \in body_indices,
           move_face       |-> affect_face /\ head]

\* the body of move_keypoints' loop over people, for one person of the copy
MovePerson(h, person, scope, current_x, current_y) ==
  MoveGroup(
    MoveGroup(
      MoveGroup(
        IF Has(h, person, "pose_keypoints_2d")
        THEN With(_apply_offset(h, h[person].fields["pose_keypoints_2d"],
                                scope.body_indices, current_x, current_y),
                  LAMBDA r : IF Failed(r) THEN r
                             ELSE Ok(SetField(r.heap, person, "pose_keypoints_2d", r.ret)))
        ELSE Ok(h),
        scope.move_left_hand, person, "hand_left_keypoints_2d", current_x, current_y),
      scope.move_right_hand, person, "hand_right_keypoints_2d", current_x, current_y),
    scope.move_face, person, "face_keypoints_2d", current_x, current_y)

RECURSIVE MovePeople(_, _, _, _, _, _, _)
MovePeople(s, people, todo, k, scope, current_x, current_y) ==
  IF Failed(s) \/ k > Len(todo) THEN s
  ELSE LET person_idx == todo[k]
       IN IF person_idx >= Len(s.heap[people].items)
          THEN MovePeople(s, people, todo, k + 1, scope, current_x, current_y)
          ELSE MovePeople(MovePerson(s.heap, s.heap[people].items[person_idx + 1], scope,
                                     current_x, current_y),
                          people, todo, k + 1, scope, current_x, current_y)

\* the loop of move_keypoints over the frames of the copy, from frame f (frame_idx f - 1)
RECURSIVE MoveFrames(_, _, _, _, _, _, _)
MoveFrames(s, frames, f, x_offset_list, y_offset_list, scope, person_index) ==
  IF Failed(s) \/ f > Len(frames) THEN s
  ELSE LET frame == frames[f]
       IN IF ~Has(s.heap, frame, "people")
          THEN MoveFrames(s, frames, f + 1, x_offset_list, y_offset_list, scope, person_index)
          ELSE IF f > Len(x_offset_list) \/ f > Len(y_offset_list)
          THEN Raise(s.heap, "IndexError")
          ELSE LET people == s.heap[frame].fields["people"]
                   todo == PeopleToEdit(Len(s.heap[people].items), person_index)
               IN MoveFrames(MovePeople(s, people, todo, 1, scope,
                                        x_offset_list[f], y_offset_list[f]),
                             frames, f + 1, x_offset_list, y_offset_list, scope, person_index)

\* the loop over a dict's keys: at the key "people" (position 1 when present) the
\* offset lists are indexed, then the string is indexed with a string
DictLoopMove(h, pose_data, x_offset_list, y_offset_list) ==
  IF ~Has(h, pose_data, "people") THEN Ok(h)
  ELSE IF Len(x_offset_list) = 0 \/ Len(y_offset_list) = 0 THEN Raise(h, "IndexError")
  ELSE Raise(h, "TypeError")

\* len(pose_data) for a list or a dict
PyLen(h, a) == IF h[a].kind = "dict" THEN Cardinality(DOMAIN h[a].fields) ELSE Len(h[a].items)

move_keypoints(h, POSE_KEYPOINT, x_offset, y_offset, POSE_SELECTION, appendage_type, person_index, list_mismatch_behavior, affect_hands, affect_face) ==
  With(deepcopy(h, POSE_KEYPOINT), LAMBDA pose_data :
  With(_normalize_to_list(pose_data.heap, x_offset, PyLen(pose_data.heap, pose_data.ret),
                          list_mismatch_behavior), LAMBDA xl :
  With(IF Failed(xl) THEN xl
       ELSE _normalize_to_list(xl.heap, y_offset, PyLen(pose_data.heap, pose_data.ret),
                               list_mismatch_behavior), LAMBDA yl :
  With(MoveScope(h, POSE_SELECTION, appendage_type, affect_hands, affect_face), LAMBDA scope :
  With(IF Failed(yl) THEN yl
       ELSE IF yl.heap[pose_data.ret].kind = "dict"
       THEN DictLoopMove(yl.heap, pose_data.ret, yl.heap[xl.ret].items, yl.heap[yl.ret].items)
       ELSE MoveFrames(Ok(yl.heap), yl.heap[pose_data.ret].items, 1, yl.heap[xl.ret].items,
                       yl.heap[yl.ret].items, scope, person_index),
       LAMBDA s : [heap |-> s.heap, err |-> s.err, ret |-> pose_data.ret])))))

(***************************************************************************)
(* PoseAttachNode.                                                         *)
(***************************************************************************)
keypoint_options ==
  <<"0: Nose", "1: Neck", "2: RShoulder", "3: RElbow", "4: RWrist", "5: LShoulder",
    "6: LElbow", "7: LWrist", "8: RHip", "9: RKnee", "10: RAnkle", "11: LHip",
    "12: LKnee", "13: LAnkle", "14: REye", "15: LEye", "16: REar", "17: LEar">>

\* int(option.split(":")[0]) for an option of the list above
ParseIndex(option) == (CHOOSE k \in DOMAIN keypoint_options : keypoint_options[k] = option) - 1

\* "if x:" for a list, a dict or None
Truthy(h, a) ==
  CASE h[a].kind = "none" -> FALSE
    [] h[a].kind = "dict" -> DOMAIN h[a].fields # {}
    [] OTHER -> Len(h[a].items) > 0

\* person.get(key, []): the items of the list, <<>> for the default; None is kept apart
GetItems(h, person, key) ==
  IF Has(h, person, key) /\ h[h[person].fields[key]].kind # "none"
  THEN h[h[person].fields[key]].items ELSE <<>>

\* [x, y] of a keypoint whatever its confidence, <<>> if the list is too short
GetPosUngated(keypoints, keypoint_idx) ==
  LET i == keypoint_idx * 3
  IN IF Len(keypoints) <= i + 2 THEN <<>>
     ELSE <<keypoints[i + 1], keypoints[i + 2]>>

\* [x, y] of a keypoint, or None (here <<>>) if not available
_get_keypoint_pos(keypoints, keypoint_idx) ==
  LET i == keypoint_idx * 3
  IN IF Len(keypoints) <= i + 2 THEN <<>>
     ELSE IF keypoints[i + 3] <= 0 THEN <<>>
     ELSE <<keypoints[i + 1], keypoints[i + 2]>>

\* every attachment index with confidence > 0 (lines 151-155)
ConfidentIndices(attachment_keypoints) ==
  {i \div 3 : i \in {k \in 0..(Len(attachment_keypoints) - 1) :
                       /\ k % 3 = 0
                       /\ Len(attachment_keypoints) > k + 2
                       /\ attachment_keypoints[k + 3] > 0}}

\* the body loop writing only the keypoints that the base has with confidence > 0
AttachBodyGated(base_keypoints, attachment_keypoints, indices_to_attach, offset_x, offset_y) ==
  [p \in DOMAIN base_keypoints |->
     LET keypoint_idx == (p - 1) \div 3
         i == keypoint_idx * 3
     IN IF /\ keypoint_idx \in indices_to_attach
           /\ Len(attachment_keypoints) > i + 2
           /\ Len(base_keypoints) > i + 2
           /\ base_keypoints[i + 3] > 0
        THEN CASE p - 1 = i     -> attachment_keypoints[i + 1] + offset_x
               [] p - 1 = i + 1 -> attachment_keypoints[i + 2] + offset_y
               [] OTHER         -> attachment_keypoints[i + 3]
        ELSE base_keypoints[p]]

\* the loop "for keypoint_idx in indices_to_attach" on new_keypoints; each index
\* writes its own three places, so the order of the set does not matter
AttachBody(base_keypoints, attachment_keypoints, indices_to_attach, offset_x, offset_y) ==
  [p \in DOMAIN base_keypoints |->
     LET keypoint_idx == (p - 1) \div 3
         i == keypoint_idx * 3
     IN IF /\ keypoint_idx \in indices_to_attach
           /\ Len(attachment_keypoints) > i + 2
           /\ Len(base_keypoints) > i + 2
        THEN CASE p - 1 = i     -> attachment_keypoints[i + 1] + offset_x
               [] p - 1 = i + 1 -> attachment_keypoints[i + 2] + offset_y
               [] OTHER         -> attachment_keypoints[i + 3]
        ELSE base_keypoints[p]]

\* the loop adding the offset only to the keypoints with confidence > 0
AttachGroupLoopGated(attachment_hand, i, offset_x, offset_y, new_hand) ==
  new_hand \o [p \in 1..(3 * (Len(attachment_hand) \div 3)) |->
                IF attachment_hand[3 * ((p - 1) \div 3) + 3] > 0
                THEN CASE p % 3 = 1 -> attachment_hand[p] + offset_x
                       [] p % 3 = 2 -> attachment_hand[p] + offset_y
                       [] OTHER -> attachment_hand[p]
                ELSE attachment_hand[p]]

\* the loop of _attach_hand_keypoints and _attach_face_keypoints: every complete
\* triplet of the donor list, offset applied
RECURSIVE AttachGroupLoop(_, _, _, _, _)
AttachGroupLoop(attachment_hand, i, offset_x, offset_y, new_hand) ==
  IF i >= Len(attachment_hand) THEN new_hand
  ELSE IF Len(attachment_hand) > i + 2
  THEN AttachGroupLoop(attachment_hand, i + 3, offset_x, offset_y,
                       new_hand \o <<attachment_hand[i + 1] + offset_x,
                                     attachment_hand[i + 2] + offset_y,
                                     attachment_hand[i + 3]>>)
  ELSE AttachGroupLoop(attachment_hand, i + 3, offset_x, offset_y, new_hand)

_attach_hand_keypoints(h, base_person, attachment_person, offset_x, offset_y, keypoint_field) ==
  IF ~Has(h, attachment_person, keypoint_field)
     \/ ~Truthy(h, h[attachment_person].fields[keypoint_field])
  THEN h
  ELSE LET attachment_hand == h[h[attachment_person].fields[keypoint_field]].items
           new_hand == AttachGroupLoop(attachment_hand, 0, offset_x, offset_y, <<>>)
       IN SetField(Alloc(h, NumsObj(new_hand)), base_person, keypoint_field, NewAddr(h))

_attach_face_keypoints(h, base_person, attachment_person, offset_x, offset_y) ==
  IF ~Has(h, attachment_person, "face_keypoints_2d")
     \/ ~Truthy(h, h[attachment_person].fields["face_keypoints_2d"])
  THEN h
  ELSE LET attachment_face == h[h[attachment_person].fields["face_keypoints_2d"]].items
           new_face == AttachGroupLoop(attachment_face, 0, offset_x, offset_y, <<>>)
       IN SetField(Alloc(h, NumsObj(new_face)), base_person, "face_keypoints_2d", NewAddr(h))

_attach_keypoints(h, base_person, attachment_person, attach_point_idx, pose_selection, attach_hands, attach_face) ==
  LET base_keypoints == GetItems(h, base_person, "pose_keypoints_2d")
      attachment_keypoints == GetItems(h, attachment_person, "pose_keypoints_2d")
      base_attach_pos == _get_keypoint_pos(base_keypoints, attach_point_idx)
      attachment_attach_pos == _get_keypoint_pos(attachment_keypoints, attach_point_idx)
      offset_x == base_attach_pos[1] - attachment_attach_pos[1]
      offset_y == base_attach_pos[2] - attachment_attach_pos[2]
      selected == Truthy(h, pose_selection)
      indices_to_attach ==
        IF selected THEN SelBodyIndices(h, pose_selection)
        ELSE ConfidentIndices(attachment_keypoints)
      do_attach_hands ==
        IF selected
        THEN SelGet(h, pose_selection, "include_left_hand", FALSE)
             \/ SelGet(h, pose_selection, "include_right_hand", FALSE) \/ attach_hands
        ELSE attach_hands
      do_attach_face ==
        IF selected THEN SelGet(h, pose_selection, "include_face", FALSE) \/ attach_face
        ELSE attach_face
  IN IF base_keypoints = <<>> \/ attachment_keypoints = <<>> THEN h
     ELSE IF base_attach_pos = <<>> \/ attachment_attach_pos = <<>> THEN h
     ELSE
       With(SetField(Alloc(h, NumsObj(AttachBody(base_keypoints, attachment_keypoints,
                                                 indices_to_attach, offset_x, offset_y))),
                     base_person, "pose_keypoints_2d", NewAddr(h)), LAMBDA h1 :
       With(IF do_attach_hands
            THEN _attach_hand_keypoints(h1, base_person, attachment_person, offset_x, offset_y,
                                        "hand_left_keypoints_2d")
            ELSE h1, LAMBDA h2 :
       With(IF do_attach_hands
            THEN _attach_hand_keypoints(h2, base_person, attachment_person, offset_x, offset_y,
                                        "hand_right_keypoints_2d")
            ELSE h2, LAMBDA h3 :
       IF do_attach_face
       THEN _attach_face_keypoints(h3, base_person, attachment_person, offset_x, offset_y)
       ELSE h3)))

\* X if isinstance(X, list) else [X]
AsList(h, a) == IF h[a].kind = "list" THEN Ret(h, a) ELSE Ret(Alloc(h, ListObj(<<a>>)), NewAddr(h))

Max(a, b) == IF a > b THEN a ELSE b

\* the frame of a sequence of n frames that holds its last frame, for frame_idx
HoldIndex(frame_idx, n) == Min(frame_idx, n - 1)

\* "frame_idx % len(poses)": the frame of a sequence of n frames used for frame_idx
LoopIndex(frame_idx, n) == frame_idx % n

\* the loop of attach_pose over frame_idx, appending to the list output_poses
RECURSIVE AttachFrames(_, _, _, _, _, _, _, _, _, _, _, _)
AttachFrames(s, output_poses, base_poses, attachment_poses, frame_idx, max_frames, attach_point_idx, POSE_SELECTION, base_person_index, attachment_person_index, attach_hands, attach_face) ==
  IF Failed(s) \/ frame_idx >= max_frames THEN s
  ELSE IF Len(s.heap[base_poses].items) = 0 \/ Len(s.heap[attachment_poses].items) = 0
  THEN Raise(s.heap, "ZeroDivisionError")
  ELSE
    With(deepcopy(s.heap, s.heap[base_poses].items[LoopIndex(frame_idx, Len(s.heap[base_poses].items)) + 1]),
         LAMBDA base_frame :
    With(s.heap[attachment_poses].items[LoopIndex(frame_idx, Len(s.heap[attachment_poses].items)) + 1],
         LAMBDA attachment_frame :
    With(base_frame.heap, LAMBDA h :
    With(\/ ~Has(h, base_frame.ret, "people") \/ ~Has(h, attachment_frame, "people")
         \/ base_person_index >= Len(h[h[base_frame.ret].fields["people"]].items)
         \/ attachment_person_index >= Len(h[h[attachment_frame].fields["people"]].items),
         LAMBDA passthrough :
    With(IF passthrough THEN h
         ELSE _attach_keypoints(h, h[h[base_frame.ret].fields["people"]].items[base_person_index + 1],
                                h[h[attachment_frame].fields["people"]].items[attachment_person_index + 1],
                                attach_point_idx, POSE_SELECTION, attach_hands, attach_face),
         LAMBDA h1 :
    \* output_poses.append(base_frame)
    AttachFrames(Ok([h1 EXCEPT ![output_poses].items = Append(@, base_frame.ret)]),
                 output_poses, base_poses, attachment_poses, frame_idx + 1,
                 max_frames, attach_point_idx, POSE_SELECTION, base_person_index,
                 attachment_person_index, attach_hands, attach_face))))))

attach_pose(h, BASE_POSE, ATTACHMENT_POSE, attachment_point, POSE_SELECTION, base_person_index, attachment_person_index, attach_hands, attach_face) ==
  With(ParseIndex(attachment_point), LAMBDA attach_point_idx :
  With(AsList(h, BASE_POSE), LAMBDA base_poses :
  With(AsList(base_poses.heap, ATTACHMENT_POSE), LAMBDA attachment_poses :
  With(NewAddr(attachment_poses.heap), LAMBDA output_poses :
  With(Max(Len(attachment_poses.heap[base_poses.ret].items),
           Len(attachment_poses.heap[attachment_poses.ret].items)), LAMBDA max_frames :
  With(AttachFrames(Ok(Alloc(attachment_poses.heap, ListObj(<<>>))), output_poses,
                    base_poses.ret, attachment_poses.ret, 0, max_frames, attach_point_idx,
                    POSE_SELECTION, base_person_index, attachment_person_index,
                    attach_hands, attach_face),
       LAMBDA s : [heap |-> s.heap, err |-> s.err, ret |-> output_poses]))))))

(***************************************************************************)
(* PoseMergeNode.  poses is the sequence <<POSE_KEYPOINT_1, ...,           *)
(* POSE_KEYPOINT_5>> of argument addresses, NoneAddr for an input that is  *)
(* not connected.                                                          *)
(***************************************************************************)
\* normalized_poses: every input that is not a list is wrapped in a new list
RECURSIVE NormalizePoses(_, _, _, _)
NormalizePoses(h, pose_inputs, k, acc) ==
  IF k > Len(pose_inputs) THEN [heap |-> h, items |-> acc]
  ELSE With(AsList(h, pose_inputs[k]),
            LAMBDA n : NormalizePoses(n.heap, pose_inputs, k + 1, Append(acc, n.ret)))

\* "for person in source_frame['people']": appends a deep copy of each person
RECURSIVE MergePeople(_, _, _, _)
MergePeople(s, people, j, merged_people) ==
  IF Failed(s) \/ j > Len(people) THEN s
  ELSE With(deepcopy(s.heap, people[j]),
            LAMBDA c : MergePeople(Ok([c.heap EXCEPT ![merged_people].items = Append(@, c.ret)]),
                                   people, j + 1, merged_people))

\* the frame of a list of n frames that cycles, for frame_idx
CyclicIndex(frame_idx, n) == frame_idx % n

\* "min(frame_idx, len(pose_list) - 1)": the last frame once the list has run out
HeldIndex(frame_idx, n) == Min(frame_idx, n - 1)

\* "for pose_list in normalized_poses" for one output frame
RECURSIVE MergeSources(_, _, _, _, _)
MergeSources(s, normalized_poses, k, frame_idx, merged_people) ==
  IF Failed(s) \/ k > Len(normalized_poses) THEN s
  ELSE LET pose_list == s.heap[normalized_poses[k]].items
           source_frame_idx == HeldIndex(frame_idx, Len(pose_list))
       IN \* an empty list is indexed at -1
          IF Len(pose_list) = 0 THEN Raise(s.heap, "IndexError")
          ELSE LET source_frame == pose_list[source_frame_idx + 1]
               IN IF s.heap[source_frame].kind = "dict" /\ Has(s.heap, source_frame, "people")
                  THEN MergeSources(MergePeople(s, s.heap[s.heap[source_frame].fields["people"]].items,
                                                1, merged_people),
                                    normalized_poses, k + 1, frame_idx, merged_people)
                  ELSE MergeSources(s, normalized_poses, k + 1, frame_idx, merged_people)

\* the loop of merge_poses over frame_idx, appending to the list output_poses
RECURSIVE MergeFrames(_, _, _, _, _, _, _)
MergeFrames(s, output_poses, normalized_poses, frame_idx, max_frames, canvas_width, canvas_height) ==
  IF Failed(s) \/ frame_idx >= max_frames THEN s
  ELSE With(NewAddr(s.heap), LAMBDA merged_people :
       With(merged_people + 1, LAMBDA merged_frame :
       With(MergeSources(Ok(Alloc(Alloc(s.heap, ListObj(<<>>)),
                                  DictObj([people |-> merged_people,
                                           canvas_width |-> canvas_width,
                                           canvas_height |-> canvas_height]))),
                         normalized_poses, 1, frame_idx, merged_people), LAMBDA m :
       IF Failed(m) THEN m
       ELSE MergeFrames(Ok([m.heap EXCEPT ![output_poses].items = Append(@, merged_frame)]),
                        output_poses, normalized_poses, frame_idx + 1, max_frames,
                        canvas_width, canvas_height))))

\* max(len(pose) if isinstance(pose, list) else 1 for pose in pose_inputs)
RECURSIVE MaxFramesOf(_, _, _)
MaxFramesOf(h, pose_inputs, k) ==
  IF k > Len(pose_inputs) THEN 0
  ELSE Max(IF h[pose_inputs[k]].kind = "list" THEN Len(h[pose_inputs[k]].items) ELSE 1,
           MaxFramesOf(h, pose_inputs, k + 1))

merge_poses(h, poses, canvas_width, canvas_height) ==
  With(<<poses[1]>> \o SelectSeq(Tail(poses), LAMBDA a : a # NoneAddr), LAMBDA pose_inputs :
  With(MaxFramesOf(h, pose_inputs, 1), LAMBDA max_frames :
  With(NormalizePoses(h, pose_inputs, 1, <<>>), LAMBDA normalized_poses :
  With(NewAddr(normalized_poses.heap), LAMBDA output_poses :
  With(MergeFrames(Ok(Alloc(normalized_poses.heap, ListObj(<<>>))), output_poses,
                   normalized_poses.items, 0, max_frames, canvas_width, canvas_height),
       LAMBDA s : [heap |-> s.heap, err |-> s.err, ret |-> output_poses])))))

(***************************************************************************)
(* PoseTemporalSmoothingNode.  The smoothing factor is the fraction        *)
(* factor.num / factor.den.  Coordinates are floats: the numbers m * 2^e   *)
(* with an integer significand |m| < 2^Precision and e >= 0, and every     *)
(* arithmetic operation returns the float nearest to the exact result, a   *)
(* tie going to the even significand (Python floats: precision 53).        *)
(***************************************************************************)
Abs(n) == IF n < 0 THEN -n ELSE n

\* the distance between neighbouring floats at the magnitude m >= 0
RECURSIVE Ulp(_)
Ulp(m) == IF m < 2 ^ Precision THEN 1 ELSE 2 * Ulp(m \div 2)

\* n / m (m > 0) rounded to the nearest integer, a tie to the even one
RoundQuotient(n, m) ==
  IF 2 * (n % m) < m THEN n \div m
  ELSE IF 2 * (n % m) > m THEN (n \div m) + 1
  ELSE IF (n \div m) % 2 = 0 THEN n \div m ELSE (n \div m) + 1

\* the multiple of u nearest to n / m (m > 0), a tie to the even multiple
RoundTo(n, m, u) == RoundQuotient(n, m * u) * u

\* the float nearest to n / m (m > 0), a tie to the one with the even significand
RoundRatio(n, m) == RoundTo(n, m, Ulp(Abs(n) \div m))

\* float subtraction, addition, and multiplication by the fraction factor
FloatSub(a, b) == RoundRatio(a - b, 1)
FloatAdd(a, b) == RoundRatio(a + b, 1)
FloatMul(factor, a) == RoundRatio(factor.num * a, factor.den)

\* the factor read as the weight of the previous value
SmoothValueReversed(previous, current, factor) ==
  FloatAdd(current, FloatMul(factor, FloatSub(previous, current)))

\* a step of twice the factor
SmoothValueTwice(previous, current, factor) ==
  FloatAdd(previous, 2 * FloatMul(factor, FloatSub(current, previous)))

_smooth_value(previous, current, factor) ==
  FloatAdd(previous, FloatMul(factor, FloatSub(current, previous)))

\* the loop of _smooth_keypoint_array from Python index i, building smoothed
RECURSIVE SmoothArrayLoop(_, _, _, _, _)
SmoothArrayLoop(current_kps, previous_kps, i, smoothing_factor, smoothed) ==
  IF i >= Len(current_kps) THEN smoothed
  ELSE IF Len(current_kps) > i + 2 /\ Len(previous_kps) > i + 2
  THEN IF current_kps[i + 3] > 0 /\ previous_kps[i + 3] > 0
       THEN SmoothArrayLoop(current_kps, previous_kps, i + 3, smoothing_factor,
                            smoothed \o <<_smooth_value(previous_kps[i + 1], current_kps[i + 1],
                                                        smoothing_factor),
                                          _smooth_value(previous_kps[i + 2], current_kps[i + 2],
                                                        smoothing_factor),
                                          current_kps[i + 3]>>)
       ELSE SmoothArrayLoop(current_kps, previous_kps, i + 3, smoothing_factor,
                            smoothed \o <<current_kps[i + 1], current_kps[i + 2],
                                          current_kps[i + 3]>>)
  ELSE SmoothArrayLoop(current_kps, previous_kps, i + 3, smoothing_factor, smoothed)

_smooth_keypoint_array(h, current_person, previous_person, keypoint_field, smoothing_factor) ==
  IF ~Has(h, current_person, keypoint_field) \/ ~Has(h, previous_person, keypoint_field) THEN h
  ELSE LET current_kps == h[current_person].fields[keypoint_field]
           previous_kps == h[previous_person].fields[keypoint_field]
       IN IF h[current_kps].kind = "none" \/ h[previous_kps].kind = "none" THEN h
          ELSE IF Len(h[current_kps].items) # Len(h[previous_kps].items) THEN h
          ELSE SetField(Alloc(h, NumsObj(SmoothArrayLoop(h[current_kps].items,
                                                         h[previous_kps].items, 0,
                                                         smoothing_factor, <<>>))),
                        current_person, keypoint_field, NewAddr(h))

\* the smoothing of one body keypoint without the test of the two confidences
SmoothKeypointUngated(current_body, previous_body, keypoint_idx, smoothing_factor) ==
  LET i == keypoint_idx * 3
  IN IF Len(current_body) > i + 2 /\ Len(previous_body) > i + 2
     THEN [current_body EXCEPT
             ![i + 1] = _smooth_value(previous_body[i + 1], current_body[i + 1], smoothing_factor),
             ![i + 2] = _smooth_value(previous_body[i + 2], current_body[i + 2], smoothing_factor)]
     ELSE current_body

\* the guarded in-place smoothing of one body keypoint of the list current_body
SmoothKeypoint(current_body, previous_body, keypoint_idx, smoothing_factor) ==
  LET i == keypoint_idx * 3
  IN IF /\ Len(current_body) > i + 2 /\ Len(previous_body) > i + 2
        /\ current_body[i + 3] > 0 /\ previous_body[i + 3] > 0
     THEN [current_body EXCEPT
             ![i + 1] = _smooth_value(previous_body[i + 1], current_body[i + 1], smoothing_factor),
             ![i + 2] = _smooth_value(previous_body[i + 2], current_body[i + 2], smoothing_factor)]
     ELSE current_body

\* "for keypoint_idx in body_indices_to_smooth": each index writes its own places
RECURSIVE SmoothBody(_, _, _, _)
SmoothBody(current_body, previous_body, todo, smoothing_factor) ==
  IF todo = {} THEN current_body
  ELSE LET keypoint_idx == CHOOSE x \in todo : TRUE
       IN SmoothBody(SmoothKeypoint(current_body, previous_body, keypoint_idx, smoothing_factor),
                     previous_body, todo \ {keypoint_idx}, smoothing_factor)

\* the hands and face part shared by the two per-person procedures
SmoothGroups(h, current_person, previous_person, smoothing_factor, smooth_hands, smooth_face) ==
  With(IF smooth_hands
       THEN _smooth_keypoint_array(h, current_person, previous_person,
                                   "hand_left_keypoints_2d", smoothing_factor)
       ELSE h, LAMBDA h1 :
  With(IF smooth_hands
       THEN _smooth_keypoint_array(h1, current_person, previous_person,
                                   "hand_right_keypoints_2d", smoothing_factor)
       ELSE h1, LAMBDA h2 :
  IF smooth_face
  THEN _smooth_keypoint_array(h2, current_person, previous_person, "face_keypoints_2d",
                              smoothing_factor)
  ELSE h2))

_smooth_person_independent(h, current_person, previous_person, smoothing_factor, body_indices_to_smooth, smooth_hands, smooth_face) ==
  LET current_body == GetItems(h, current_person, "pose_keypoints_2d")
      previous_body == GetItems(h, previous_person, "pose_keypoints_2d")
      \* current_body is mutated in place; the person keeps the same list object
      h1 == IF current_body # <<>> /\ previous_body # <<>>
            THEN [h EXCEPT ![h[current_person].fields["pose_keypoints_2d"]].items =
                             SmoothBody(current_body, previous_body, body_indices_to_smooth,
                                        smoothing_factor)]
            ELSE h
  IN Ok(SmoothGroups(h1, current_person, previous_person, smoothing_factor,
                     smooth_hands, smooth_face))

_smooth_person_with_focus(h, current_person, previous_person, smoothing_factor, focus_point_idx, body_indices_to_smooth, smooth_hands, smooth_face) ==
  LET current_body == GetItems(h, current_person, "pose_keypoints_2d")
      previous_body == GetItems(h, previous_person, "pose_keypoints_2d")
      focus_idx == focus_point_idx * 3
      focused == SmoothKeypoint(current_body, previous_body, focus_point_idx, smoothing_factor)
      body == [h EXCEPT ![h[current_person].fields["pose_keypoints_2d"]].items = focused]
      h1 == [h EXCEPT ![h[current_person].fields["pose_keypoints_2d"]].items =
                        SmoothBody(focused, previous_body,
                                   body_indices_to_smooth \ {focus_point_idx}, smoothing_factor)]
  IN IF current_body = <<>> \/ previous_body = <<>> THEN Ok(h)
     \* focus_pos_current reads current_body[focus_idx + 1] after the focus was smoothed
     ELSE IF focus_idx + 1 >= Len(current_body) THEN Raise(body, "IndexError")
     ELSE Ok(SmoothGroups(h1, current_person, previous_person, smoothing_factor,
                          smooth_hands, smooth_face))

RECURSIVE SmoothPeople(_, _, _, _, _, _, _, _, _, _)
SmoothPeople(s, current_people, previous_people, todo, k, smoothing_factor, focus_point, body_indices_to_smooth, do_smooth_hands, do_smooth_face) ==
  IF Failed(s) \/ k > Len(todo) THEN s
  ELSE LET person_idx == todo[k]
       IN IF person_idx >= Len(current_people) \/ person_idx >= Len(previous_people)
          THEN SmoothPeople(s, current_people, previous_people, todo, k + 1, smoothing_factor,
                            focus_point, body_indices_to_smooth, do_smooth_hands, do_smooth_face)
          ELSE SmoothPeople(
                 IF focus_point # "none"
                 THEN _smooth_person_with_focus(s.heap, current_people[person_idx + 1],
                                                previous_people[person_idx + 1], smoothing_factor,
                                                ParseIndex(focus_point), body_indices_to_smooth,
                                                do_smooth_hands, do_smooth_face)
                 ELSE _smooth_person_independent(s.heap, current_people[person_idx + 1],
                                                 previous_people[person_idx + 1], smoothing_factor,
                                                 body_indices_to_smooth, do_smooth_hands,
                                                 do_smooth_face),
                 current_people, previous_people, todo, k + 1, smoothing_factor, focus_point,
                 body_indices_to_smooth, do_smooth_hands, do_smooth_face)

\* the loop of smooth_pose over frame_idx (frame f of the input is frame_idx f - 1),
\* appending to the list smoothed_poses
RECURSIVE SmoothFrames(_, _, _, _, _, _, _, _, _, _)
SmoothFrames(s, smoothed_poses, frames, f, smoothing_factor, focus_point, person_index, body_indices_to_smooth, do_smooth_hands, do_smooth_face) ==
  IF Failed(s) \/ f > Len(frames) THEN s
  ELSE With(s.heap[smoothed_poses].items[f - 1], LAMBDA previous_frame :
       With(deepcopy(s.heap, frames[f]), LAMBDA current_frame :
       With(current_frame.heap, LAMBDA h :
       With(IF ~Has(h, previous_frame, "people") \/ ~Has(h, current_frame.ret, "people")
            THEN Ok(h)
            ELSE SmoothPeople(Ok(h), h[h[current_frame.ret].fields["people"]].items,
                              h[h[previous_frame].fields["people"]].items,
                              PeopleToEdit(Len(h[h[current_frame.ret].fields["people"]].items),
                                           person_index),
                              1, smoothing_factor, focus_point, body_indices_to_smooth,
                              do_smooth_hands, do_smooth_face), LAMBDA p :
       IF Failed(p) THEN p
       \* smoothed_poses.append(current_frame)
       ELSE SmoothFrames(Ok([p.heap EXCEPT ![smoothed_poses].items = Append(@, current_frame.ret)]),
                         smoothed_poses, frames, f + 1, smoothing_factor, focus_point,
                         person_index, body_indices_to_smooth, do_smooth_hands,
                         do_smooth_face)))))

smooth_pose(h, POSE_KEYPOINT, smoothing_factor, POSE_SELECTION, focus_point, person_index, smooth_hands, smooth_face) ==
  IF h[POSE_KEYPOINT].kind # "list" \/ Len(h[POSE_KEYPOINT].items) <= 1
  THEN Ret(h, POSE_KEYPOINT)
  ELSE
    LET selected == Truthy(h, POSE_SELECTION)
        body_indices_to_smooth ==
          IF selected THEN SelBodyIndices(h, POSE_SELECTION) ELSE 0..(NumBodyKeypoints - 1)
        do_smooth_hands ==
          IF selected
          THEN SelGet(h, POSE_SELECTION, "include_left_hand", FALSE)
               \/ SelGet(h, POSE_SELECTION, "include_right_hand", FALSE) \/ smooth_hands
          ELSE smooth_hands
        do_smooth_face ==
          IF selected THEN SelGet(h, POSE_SELECTION, "include_face", FALSE) \/ smooth_face
          ELSE smooth_face
    IN With(deepcopy(h, h[POSE_KEYPOINT].items[1]), LAMBDA first :
       With(NewAddr(first.heap), LAMBDA smoothed_poses :
       With(SmoothFrames(Ok(Alloc(first.heap, ListObj(<<first.ret>>))), smoothed_poses,
                         h[POSE_KEYPOINT].items, 2, smoothing_factor, focus_point,
                         person_index, body_indices_to_smooth, do_smooth_hands,
                         do_smooth_face),
            LAMBDA s : [heap |-> s.heap, err |-> s.err, ret |-> smoothed_poses])))

(***************************************************************************)
(* The values the host graph can hand to a node.  A person is built from a *)
(* template that says, for each keypoint group, whether the key is absent, *)
(* None, or a list with the given confidences; coordinates differ from     *)
(* frame to frame, person to person and keypoint to keypoint.              *)
(***************************************************************************)
GroupKeys == <<"pose_keypoints_2d", "hand_left_keypoints_2d",
               "hand_right_keypoints_2d", "face_keypoints_2d">>

IsList(confs) == [is |-> "list", confs |-> confs]
IsNone == [is |-> "none", confs |-> <<>>]

BodyConfs(mask, low) == [p \in 1..NumBodyKeypoints |-> IF (p - 1) \in mask THEN low + ((p - 1) % 5) ELSE 0]

PersonTemplates ==
  << [pose_keypoints_2d       |-> IsList(BodyConfs(0..(NumBodyKeypoints - 1), 5)),
      hand_left_keypoints_2d  |-> IsList(<<7, 0>>),
      hand_right_keypoints_2d |-> IsList(<<6, 3>>),
      face_keypoints_2d       |-> IsList(<<8, 0, 4>>)],
     [pose_keypoints_2d       |-> IsList(BodyConfs({0, 1, 2, 3, 4, 14}, 2)),
      hand_left_keypoints_2d  |-> IsNone,
      face_keypoints_2d       |-> IsList(<<>>)],
     [hand_left_keypoints_2d  |-> IsList(<<0, 9>>),
      hand_right_keypoints_2d |-> IsNone,
      face_keypoints_2d       |-> IsList(<<5>>)],
     [pose_keypoints_2d       |-> IsNone,
      hand_right_keypoints_2d |-> IsList(<<2>>)] >>

\* the flat [x, y, confidence, ...] list of group g of person j of frame f
GroupData(confs, f, j, g, scale) ==
  [p \in 1..(3 * Len(confs)) |->
     LET i == (p - 1) \div 3
         r == (p - 1) % 3
     IN CASE r = 0 -> scale * (10000 * j + 1024 * f + 20 * g + i)
          [] r = 1 -> scale * (10000 * j + 1024 * f + 20 * g + i + 500)
          [] OTHER -> confs[i + 1]]

\* allocates the groups GroupKeys[g..] of a person, returns [heap, fields]
RECURSIVE BuildGroups(_, _, _, _, _, _, _)
BuildGroups(h, tmpl, f, j, g, scale, acc) ==
  IF g > Len(GroupKeys) THEN [heap |-> h, fields |-> acc]
  ELSE LET key == GroupKeys[g] IN
       IF key \notin DOMAIN tmpl THEN BuildGroups(h, tmpl, f, j, g + 1, scale, acc)
       ELSE IF tmpl[key].is = "none"
       THEN BuildGroups(h, tmpl, f, j, g + 1, scale,
                        [x \in DOMAIN acc \cup {key} |-> IF x = key THEN NoneAddr ELSE acc[x]])
       ELSE BuildGroups(Alloc(h, NumsObj(GroupData(tmpl[key].confs, f, j, g, scale))), tmpl, f, j,
                        g + 1, scale,
                        [x \in DOMAIN acc \cup {key} |-> IF x = key THEN NewAddr(h) ELSE acc[x]])

BuildPerson(h, tmpl, f, j, scale) ==
  With(BuildGroups(h, tmpl, f, j, 1, scale, EmptyFields),
       LAMBDA b : Ret(Alloc(b.heap, DictObj(b.fields)), NewAddr(b.heap)))

\* the variant in which a person is tracked with the first template in one frame
\* and with the second in the next, so that keypoints lose and regain confidence
Flicker == 1

\* the variant in which the coordinates of every second frame are WideScale times
\* as large, so that the coordinates of consecutive frames differ in magnitude and
\* their difference is not a float of the model's precision
Wide == 3
WideScale == 16

\* person j of frame f uses template j, rotated by the variant v; under Flicker the
\* first two templates, alternating from frame to frame
TemplateOf(j, f, v) ==
  IF v = Flicker THEN PersonTemplates[((j + f) % 2) + 1]
  ELSE PersonTemplates[((j - 1 + (IF v = Wide THEN 0 ELSE v)) % Len(PersonTemplates)) + 1]

\* the factor by which the coordinates of frame f are multiplied: 1, and under Wide
\* WideScale in every second frame
ScaleOf(f, v) == IF v = Wide /\ f % 2 = 0 THEN WideScale ELSE 1

\* allocates persons j..k of frame f, returns [heap, items]
RECURSIVE BuildPeople(_, _, _, _, _, _)
BuildPeople(h, f, k, v, j, acc) ==
  IF j > k THEN [heap |-> h, items |-> acc]
  ELSE With(BuildPerson(h, TemplateOf(j, f, v), f, j, ScaleOf(f, v)),
            LAMBDA b : IF Failed(b) THEN [heap |-> b.heap, items |-> acc]
                       ELSE BuildPeople(b.heap, f, k, v, j + 1, Append(acc, b.ret)))

DefaultWidth == 512
DefaultHeight == 768

\* frame f with k people; k = -1 is a frame without the 'people' key
BuildFrame(h, f, k, v) ==
  IF k = -1
  THEN Ret(Alloc(h, DictObj([canvas_width |-> DefaultWidth, canvas_height |-> DefaultHeight])),
           NewAddr(h))
  ELSE With(BuildPeople(h, f, k, v, 1, <<>>),
            LAMBDA b : With(Alloc(b.heap, ListObj(b.items)),
            LAMBDA h1 : Ret(Alloc(h1, DictObj([people |-> NewAddr(b.heap),
                                               canvas_width |-> DefaultWidth,
                                               canvas_height |-> DefaultHeight])),
                            NewAddr(h1))))

\* allocates frames f.. of the sequence whose frame f has shape[f] people
RECURSIVE BuildFrames(_, _, _, _, _)
BuildFrames(h, shape, v, f, acc) ==
  IF f > Len(shape) THEN [heap |-> h, items |-> acc]
  ELSE With(BuildFrame(h, f, shape[f], v),
            LAMBDA b : IF Failed(b) THEN [heap |-> b.heap, items |-> acc]
                       ELSE BuildFrames(b.heap, shape, v, f + 1, Append(acc, b.ret)))

BuildSequence(h, shape, v) ==
  With(BuildFrames(h, shape, v, 1, <<>>),
       LAMBDA b : Ret(Alloc(b.heap, ListObj(b.items)), NewAddr(b.heap)))

\* what the host connects to a pose input: a sequence whose frame f has shape[f]
\* people, a single frame that is not wrapped in a list, or nothing
SequenceInput(shape) == [is |-> "sequence", shape |-> shape]
FrameInput(k) == [is |-> "frame", shape |-> <<k>>]
NotConnected == [is |-> "none", shape |-> <<>>]

BuildPose(h, d, v) ==
  CASE d.is = "sequence" -> BuildSequence(h, d.shape, v)
    [] d.is = "frame" -> BuildFrame(h, 1, d.shape[1], v)
    [] OTHER -> Ret(h, NoneAddr)

\* allocates the pose inputs ds[k..], returns [heap, items]
RECURSIVE BuildPoses(_, _, _, _, _)
BuildPoses(h, ds, v, k, acc) ==
  IF k > Len(ds) THEN [heap |-> h, items |-> acc]
  ELSE With(BuildPose(h, ds[k], v),
            LAMBDA b : IF Failed(b) THEN [heap |-> b.heap, items |-> acc]
                       ELSE BuildPoses(b.heap, ds, v, k + 1, Append(acc, b.ret)))

\* a hand-written selection dict: only the given keys are present
BuildSelection(h, indices, flags) ==
  LET h1 == Alloc(h, NumsObj(indices))
  IN Ret(Alloc(h1, DictObj([x \in DOMAIN flags \cup {"body_indices"} |->
                              IF x = "body_indices" THEN NewAddr(h) ELSE flags[x]])),
         NewAddr(h1))

\* the selections offered to the nodes: four built by the selector node, one empty
\* dict and one hand-written dict without the face and right-hand keys
BuildSelections(h) ==
  With(create_selection(h, "all", EmptyFields), LAMBDA s1 :
  With(create_selection(s1.heap, "right_forearm",
                        [include_left_hand |-> FALSE, include_right_hand |-> TRUE,
                         include_face |-> FALSE]), LAMBDA s2 :
  With(create_selection(s2.heap, "lower_body", [include_right_hand |-> FALSE]), LAMBDA s3 :
  With(create_selection(s3.heap, "custom",
                        [include_head |-> TRUE, include_neck |-> FALSE,
                         include_torso |-> FALSE, include_left_arm |-> TRUE,
                         include_right_arm |-> FALSE, include_left_leg |-> FALSE,
                         include_right_leg |-> FALSE, include_left_hand |-> TRUE,
                         include_right_hand |-> FALSE, include_face |-> TRUE]), LAMBDA s4 :
  With(BuildSelection(Alloc(s4.heap, DictObj(EmptyFields)), <<7, 4, 30>>,
                      [include_left_hand |-> FALSE]), LAMBDA s6 :
  [heap |-> s6.heap,
   sels |-> <<s1.ret, s2.ret, s3.ret, s4.ret, NewAddr(s4.heap), s6.ret>>])))))

\* the animated offset lists offered to the mover
OffsetLists == << <<>>, <<1, 2>>, <<10, 20, 30>> >>

RECURSIVE BuildLists(_, _, _)
BuildLists(h, k, acc) ==
  IF k > Len(OffsetLists) THEN [heap |-> h, items |-> acc]
  ELSE BuildLists(Alloc(h, NumsObj(OffsetLists[k])), k + 1, Append(acc, NewAddr(h)))

(***************************************************************************)
(* The state machine: the host graph holds input values, runs one node on  *)
(* them and may feed a filter's output to the same filter again.           *)
(***************************************************************************)
\* the FUNCTION of the node named c.node on the arguments of the call c
Run(h, c) ==
  CASE c.node = "select" -> create_selection(h, c.selection_type, c.kwargs)
    [] c.node = "filter" ->
         filter_pose(h, c.poses[1], c.sel, c.person_index, c.invert_selection)
    [] c.node = "move" ->
         move_keypoints(h, c.poses[1], c.x_offset, c.y_offset, c.sel, c.appendage_type,
                        c.person_index, c.list_mismatch_behavior, c.affect_hands, c.affect_face)
    [] c.node = "attach" ->
         attach_pose(h, c.poses[1], c.poses[2], c.attachment_point, c.sel,
                     c.base_person_index, c.attachment_person_index, c.attach_hands,
                     c.attach_face)
    [] c.node = "merge" ->
         merge_poses(h, c.poses, c.canvas_width, c.canvas_height)
    [] c.node = "smooth" ->
         smooth_pose(h, c.poses[1], c.smoothing_factor, c.sel, c.focus_point,
                     c.person_index, c.smooth_hands, c.smooth_face)

Variants == {0, 2}
SmoothVariants == Variants \cup {Flicker, Wide}
FrameKinds == {-1, 0, MaxPeople}
EdgeKinds == {-1, MaxPeople}

Sequences(kinds) == {SequenceInput(s) : s \in UNION {[1..n -> kinds] : n \in 0..MaxFrames}}
Frames(kinds) == {FrameInput(k) : k \in kinds}
\* sequences of n frames of which the first m have people
PrefixSequences ==
  {SequenceInput([i \in 1..q[1] |-> IF i <= q[2] THEN MaxPeople ELSE -1]) :
     q \in {r \in (0..MaxFrames) \X (0..MaxFrames) : r[2] <= r[1]}}
FullSequences == {SequenceInput([i \in 1..n |-> MaxPeople]) : n \in 0..MaxFrames}

FilterInputs == {<<p>> : p \in Sequences(FrameKinds) \cup Frames(FrameKinds)}
MoveInputs == {<<p>> : p \in PrefixSequences \cup Frames(EdgeKinds)}
AttachInputs ==
  {<<p, q>> : p \in PrefixSequences \cup Frames(EdgeKinds),
              q \in FullSequences \cup {SequenceInput(<<-1>>), FrameInput(MaxPeople)}}
MergeInputs ==
  {<<p, q, r, NotConnected, NotConnected>> :
     p \in PrefixSequences \cup Frames(EdgeKinds),
     q \in FullSequences \cup {SequenceInput(<<-1>>), NotConnected},
     r \in {FrameInput(MaxPeople), NotConnected}}
SmoothInputs == {<<p>> : p \in Sequences(EdgeKinds) \cup Frames(EdgeKinds)}

\* the host has built the selections, the offset lists and the pose inputs of a node
Start(node, family, variants) ==
  /\ pc = "idle"
  /\ call = [node |-> "none"]
  /\ result = 0
  /\ err = "none"
  /\ \E ds \in family, v \in variants :
       With(BuildSelections(<<NoneObj>>), LAMBDA s :
       With(BuildLists(s.heap, 1, <<>>), LAMBDA l :
       With(BuildPoses(l.heap, ds, v, 1, <<>>), LAMBDA p :
         /\ heap = p.heap
         /\ before = p.heap
         /\ inputs = [node |-> node, poses |-> p.items, sels |-> s.sels, lists |-> l.items])))

InitFilter == Start("filter", FilterInputs, Variants)
InitMove == Start("move", MoveInputs, Variants)
InitAttach == Start("attach", AttachInputs, Variants)
InitMerge == Start("merge", MergeInputs, Variants)
InitSmooth == Start("smooth", SmoothInputs, SmoothVariants)
\* the selector node takes no pose input
InitSelect == Start("select", {<<>>}, Variants)

Init == InitSelect \/ InitFilter \/ InitMove \/ InitAttach \/ InitMerge \/ InitSmooth

\* the node named c.node runs on the arguments c and the state becomes name
Finish(c, name) ==
  With(Run(heap, c), LAMBDA r :
    /\ before' = heap
    /\ heap' = r.heap
    /\ err' = r.err
    /\ result' = IF r.err = "none" THEN r.ret ELSE 0
    /\ pc' = name
    /\ call' = c
    /\ UNCHANGED inputs)

Selections == SeqToSet(inputs.sels)

\* the body-part checkboxes of the selector node, and the keyword arguments of a
\* call: every checkbox is passed as true, passed as false or not passed
PartToggles == {"include_head", "include_neck", "include_torso", "include_left_arm",
                "include_right_arm", "include_left_leg", "include_right_leg"}
SelectKwargs == UNION {[S -> BOOLEAN] : S \in SUBSET (PartToggles \cup {"include_face"})}
SelectionTypes == {"custom", "torso", "lower_body"}

Select ==
  /\ pc = "idle" /\ inputs.node = "select"
  /\ \E selection_type \in SelectionTypes, kwargs \in SelectKwargs :
       Finish([node |-> "select", poses |-> <<>>, selection_type |-> selection_type,
               kwargs |-> kwargs],
              "select")

Filter ==
  /\ pc = "idle" /\ inputs.node = "filter"
  /\ \E sel \in Selections, person_index \in -1..MaxPeople, invert_selection \in BOOLEAN :
       Finish([node |-> "filter", poses |-> inputs.poses, sel |-> sel,
               person_index |-> person_index, invert_selection |-> invert_selection],
              "filter")

\* filter(filter(seq, sel), sel): the output is filtered with the same arguments
FilterAgain ==
  /\ pc = "filter" /\ err = "none"
  /\ Finish([call EXCEPT !.poses = <<result>>], "filter2")

Move ==
  /\ pc = "idle" /\ inputs.node = "move"
  /\ \E x_offset \in {Scalar(5), ListArg(inputs.lists[1]), ListArg(inputs.lists[2])},
        y_offset \in {Scalar(-3), ListArg(inputs.lists[3])},
        list_mismatch_behavior \in {"truncate", "loop", "repeat"},
        target \in {<<NoneAddr, "all">>, <<NoneAddr, "left_forearm">>,
                    <<NoneAddr, "no_such_part">>}
                   \cup {<<inputs.sels[k], "all">> : k \in 2..Len(inputs.sels)},
        person_index \in {-1, 1, MaxPeople},
        affect_hands \in BOOLEAN, affect_face \in BOOLEAN :
       Finish([node |-> "move", poses |-> inputs.poses, x_offset |-> x_offset,
               y_offset |-> y_offset, sel |-> target[1], appendage_type |-> target[2],
               person_index |-> person_index,
               list_mismatch_behavior |-> list_mismatch_behavior,
               affect_hands |-> affect_hands, affect_face |-> affect_face],
              "move")

Attach ==
  /\ pc = "idle" /\ inputs.node = "attach"
  /\ \E attachment_point \in {"1: Neck", "4: RWrist", "10: RAnkle"},
        sel \in {NoneAddr, inputs.sels[2], inputs.sels[4]},
        base_person_index \in {0, 1, MaxPeople},
        attachment_person_index \in {0, 1, MaxPeople},
        attach_hands \in BOOLEAN, attach_face \in BOOLEAN :
       Finish([node |-> "attach", poses |-> inputs.poses,
               attachment_point |-> attachment_point, sel |-> sel,
               base_person_index |-> base_person_index,
               attachment_person_index |-> attachment_person_index,
               attach_hands |-> attach_hands, attach_face |-> attach_face],
              "attach")

Merge ==
  /\ pc = "idle" /\ inputs.node = "merge"
  /\ \E canvas \in {<<DefaultWidth, DefaultHeight>>, <<640, 480>>} :
       Finish([node |-> "merge", poses |-> inputs.poses, canvas_width |-> canvas[1],
               canvas_height |-> canvas[2]],
              "merge")

Factors == {[num |-> 0, den |-> 1], [num |-> 1, den |-> 4], [num |-> 1, den |-> 2],
            [num |-> 1, den |-> 1]}

Smooth ==
  /\ pc = "idle" /\ inputs.node = "smooth"
  /\ \E smoothing_factor \in Factors,
        sel \in {NoneAddr, inputs.sels[2], inputs.sels[4], inputs.sels[5], inputs.sels[6]},
        focus_point \in {"none", "1: Neck", "4: RWrist"},
        person_index \in {-1, 0, 1},
        smooth_hands \in BOOLEAN, smooth_face \in BOOLEAN :
       Finish([node |-> "smooth", poses |-> inputs.poses,
               smoothing_factor |-> smoothing_factor, sel |-> sel,
               focus_point |-> focus_point, person_index |-> person_index,
               smooth_hands |-> smooth_hands, smooth_face |-> smooth_face],
              "smooth")

Next == Select \/ Filter \/ FilterAgain \/ Move \/ Attach \/ Merge \/ Smooth

Spec == Init /\ [][Next]_vars

NextFilter == Filter \/ FilterAgain
SpecFilter == InitFilter /\ [][NextFilter]_vars

SpecMove == InitMove /\ [][Move]_vars

SpecAttach == InitAttach /\ [][Attach]_vars

SpecMerge == InitMerge /\ [][Merge]_vars

SpecSmooth == InitSmooth /\ [][Smooth]_vars

SpecSelect == InitSelect /\ [][Select]_vars

(***************************************************************************)
(* Properties.  The values of the caller are read in before, the object    *)
(* store when the call started; the returned value is read in heap.        *)
(***************************************************************************)
Nodes == {"filter", "move", "attach", "merge", "smooth"}

\* every mutable object the caller handed to the call or still holds
InputObjects ==
  UNION {Reach(before, a) : a \in SeqToSet(inputs.poses) \cup SeqToSet(inputs.sels)
                                  \cup SeqToSet(inputs.lists)
                                  \cup (IF pc = "idle" THEN {} ELSE SeqToSet(call.poses))}

\* C1: after a call of any of the five transforms, whether it returned or raised,
\* every object of every input value (pose sequences, selections, offset lists) is
\* what it was when the call started: nothing is modified in place.
InputsUntouched == \A a \in InputObjects : heap[a] = before[a]

\* a smoothing call on three frames returned a sequence that differs from its input
InputsUntouchedWitness ==
  /\ pc = "smooth" /\ err = "none"
  /\ Len(before[call.poses[1]].items) = MaxFrames
  /\ Val(heap, result) # Val(before, call.poses[1])
  /\ Val(heap, call.poses[1]) = Val(before, call.poses[1])

\* C2: the value returned by every transform shares no list or dict object with any
\* input, for sequences of every length, 0 and 1 included.
FreshOutput ==
  (pc \in Nodes /\ err = "none") => Reach(heap, result) \cap InputObjects = {}

\* replaces every single Frame of poses[k..] by a new list that holds it
RECURSIVE WrapFrames(_, _, _, _)
WrapFrames(h, poses, k, acc) ==
  IF k > Len(poses) THEN [heap |-> h, items |-> acc]
  ELSE IF h[poses[k]].kind = "dict"
  THEN WrapFrames(Alloc(h, ListObj(<<poses[k]>>)), poses, k + 1, Append(acc, NewAddr(h)))
  ELSE WrapFrames(h, poses, k + 1, Append(acc, poses[k]))

\* C3: a transform that receives a single Frame instead of a sequence does what it
\* does for the length-1 sequence of that frame: whenever the call on the sequence
\* completes, the call on the frame completes too and returns an equal sequence.
SingleFrameAsSequence ==
  (pc \in Nodes /\ \E k \in DOMAIN call.poses : before[call.poses[k]].kind = "dict") =>
    LET w == WrapFrames(before, call.poses, 1, <<>>)
        r == Run(w.heap, [call EXCEPT !.poses = w.items])
    IN r.err = "none" => (err = "none" /\ Val(heap, result) = Val(r.heap, r.ret))

\* C4: filtering the output of filter again, with the same selection, person_index
\* and invert flag, completes and returns a value equal to that output.
FilterIdempotent ==
  pc = "filter2" => (err = "none" /\ Val(heap, result) = Val(heap, call.poses[1]))

\* a second filter ran on an output in which the first had zeroed a confident keypoint
FilterIdempotentWitness ==
  /\ pc = "filter2" /\ err = "none"
  /\ heap[result].kind = "list"
  /\ Val(heap, result) # Val(heap, inputs.poses[1])
  /\ result # call.poses[1]

(***************************************************************************)
(* Reading a pose sequence: frame f of the input and of the result, the    *)
(* people of a frame, the keypoint arrays of a person.                     *)
(***************************************************************************)
InFrames == before[call.poses[1]].items
OutFrames == heap[result].items

HasPeople(h, frame) == Has(h, frame, "people")
People(h, frame) == h[h[frame].fields["people"]].items

\* the person is targeted by the call's person_index (j is the person's position, from 1)
Targeted(j) == call.person_index = -1 \/ call.person_index = j - 1

\* person[key] is a list of numbers (the key is present and its value is not None)
IsArray(h, person, key) == Has(h, person, key) /\ h[h[person].fields[key]].kind = "nums"
Array(h, person, key) == h[h[person].fields[key]].items

\* position p of a flat array holds the confidence of keypoint (p \div 3) - 1
IsConfidence(p) == p % 3 = 0

\* the result has the frames and people of the input, and P(pin, pout, f, j) holds of
\* every input person pin (person j of frame f) and the result's person pout
ForEachPerson(P(_, _, _, _)) ==
  /\ heap[result].kind = "list"
  /\ Len(OutFrames) = Len(InFrames)
  /\ \A f \in DOMAIN InFrames :
       /\ HasPeople(heap, OutFrames[f]) = HasPeople(before, InFrames[f])
       /\ HasPeople(before, InFrames[f]) =>
            /\ Len(People(heap, OutFrames[f])) = Len(People(before, InFrames[f]))
            /\ \A j \in DOMAIN People(before, InFrames[f]) :
                 P(People(before, InFrames[f])[j], People(heap, OutFrames[f])[j], f, j)

\* some person j of some frame f of the input and the result satisfies P
SomePerson(P(_, _, _, _)) ==
  \E f \in DOMAIN InFrames :
    /\ HasPeople(before, InFrames[f])
    /\ \E j \in DOMAIN People(before, InFrames[f]) :
         P(People(before, InFrames[f])[j], People(heap, OutFrames[f])[j], f, j)

SequenceCall(name) == pc = name /\ before[call.poses[1]].kind = "list"

\* the array with the confidence of every keypoint that satisfies Z set to 0
Zeroed(a, Z(_)) == [p \in DOMAIN a |-> IF IsConfidence(p) /\ Z((p \div 3) - 1) THEN 0 ELSE a[p]]

\* filter hides body keypoint i: i is outside the selection, or inside it under invert
Hidden(i) ==
  IF call.invert_selection THEN i \in SelBodyIndices(before, call.sel)
  ELSE i \notin SelBodyIndices(before, call.sel)

FilterBodyOf(pin, pout, f, j) ==
  IF Targeted(j)
  THEN IsArray(before, pin, "pose_keypoints_2d") =>
         /\ IsArray(heap, pout, "pose_keypoints_2d")
         /\ Array(heap, pout, "pose_keypoints_2d")
              = Zeroed(Array(before, pin, "pose_keypoints_2d"), Hidden)
  ELSE Val(heap, pout) = Val(before, pin)

\* C5: filter on a sequence completes; in every targeted person the confidence of
\* body keypoint i is 0 exactly when i is hidden (not selected, or selected under
\* invert) or was 0, every other confidence and every coordinate is the input's;
\* persons that are not targeted are returned unchanged.
FilterBody ==
  SequenceCall("filter") => (err = "none" /\ ForEachPerson(FilterBodyOf))

FilterBodyCase(pin, pout, f, j) ==
  /\ Targeted(j) /\ IsArray(before, pin, "pose_keypoints_2d")
  /\ \E p, q \in DOMAIN Array(before, pin, "pose_keypoints_2d") :
       /\ IsConfidence(p) /\ IsConfidence(q)
       /\ Array(before, pin, "pose_keypoints_2d")[p] > 0
       /\ Array(heap, pout, "pose_keypoints_2d")[p] = 0
       /\ Array(heap, pout, "pose_keypoints_2d")[q] > 0

NotTargetedCase(pin, pout, f, j) == ~Targeted(j) /\ IsArray(before, pin, "pose_keypoints_2d")

\* an inverted filter of one person hid some confident body keypoints, kept others,
\* and another person of the sequence was not targeted
FilterBodyWitness ==
  /\ SequenceCall("filter") /\ err = "none"
  /\ call.invert_selection /\ call.person_index = 0
  /\ SomePerson(FilterBodyCase)
  /\ SomePerson(NotTargetedCase)

GroupFlags ==
  { <<"hand_left_keypoints_2d", "include_left_hand">>,
    <<"hand_right_keypoints_2d", "include_right_hand">>,
    <<"face_keypoints_2d", "include_face">> }

AnyKeypoint(i) == TRUE

FilterGroupsOf(pin, pout, f, j) ==
  \A g \in GroupFlags :
    (Targeted(j) /\ Has(before, call.sel, g[2])) =>
      /\ Has(heap, pout, g[1]) = Has(before, pin, g[1])
      /\ IsArray(heap, pout, g[1]) = IsArray(before, pin, g[1])
      /\ IsArray(before, pin, g[1]) =>
           Array(heap, pout, g[1])
             = IF before[call.sel].fields[g[2]] = call.invert_selection
               THEN Zeroed(Array(before, pin, g[1]), AnyKeypoint)
               ELSE Array(before, pin, g[1])

\* C6: in every targeted person, a hand or face array has the confidence of every
\* keypoint zeroed when the selection's flag for it equals the invert flag (flag
\* false and invert false, or flag true and invert true), and is the input's array
\* otherwise; never a part of it.
FilterGroups ==
  SequenceCall("filter") => (err = "none" /\ ForEachPerson(FilterGroupsOf))

RightHandZeroedCase(pin, pout, f, j) ==
  /\ Targeted(j) /\ IsArray(before, pin, "hand_right_keypoints_2d")
  /\ IsArray(before, pin, "hand_left_keypoints_2d")
  /\ \E p \in DOMAIN Array(before, pin, "hand_right_keypoints_2d") :
       IsConfidence(p) /\ p > 3 /\ Array(before, pin, "hand_right_keypoints_2d")[p] > 0
  /\ Array(heap, pout, "hand_right_keypoints_2d")
       = Zeroed(Array(before, pin, "hand_right_keypoints_2d"), AnyKeypoint)
  /\ Array(heap, pout, "hand_left_keypoints_2d") = Array(before, pin, "hand_left_keypoints_2d")

\* a filter whose selection excludes the right hand and includes the left zeroed a
\* right hand with two confident keypoints and kept the left hand
FilterGroupsWitness ==
  /\ SequenceCall("filter") /\ err = "none" /\ ~call.invert_selection
  /\ Has(before, call.sel, "include_right_hand")
  /\ ~before[call.sel].fields["include_right_hand"]
  /\ SomePerson(RightHandZeroedCase)

(***************************************************************************)
(* Properties of the mover.                                                *)
(***************************************************************************)
Offsets == {call.x_offset, call.y_offset}
OffsetItems(arg) == before[arg.v].items

\* every animated offset list of the call has at least one value
NonEmptyOffsets == \A arg \in Offsets : arg.islist => Len(OffsetItems(arg)) > 0

\* some animated offset list of the call is not as long as the pose sequence
MismatchedOffsets == \E arg \in Offsets : arg.islist /\ Len(OffsetItems(arg)) # Len(InFrames)

\* the offset of the frame with frame_idx i: the scalar, or the list's value at
\* i mod len under loop and at min(i, len - 1) under repeat and truncate
FrameOffset(arg, i) ==
  IF ~arg.islist THEN arg.v
  ELSE IF call.list_mismatch_behavior = "loop"
  THEN OffsetItems(arg)[(i % Len(OffsetItems(arg))) + 1]
  ELSE OffsetItems(arg)[Min(i, Len(OffsetItems(arg)) - 1) + 1]

\* the body indices in scope: the selection's when one is supplied, else the
\* catalog's group of the part name
ScopeIndices ==
  IF call.sel # NoneAddr THEN SelBodyIndices(before, call.sel)
  ELSE SeqToSet(get_body_part_indices(call.appendage_type))

InBodyScope(i) == i \in ScopeIndices

\* a selection is supplied or the part name is one of the catalog
KnownPart == call.sel # NoneAddr \/ call.appendage_type \in DOMAIN BODY_PART_GROUPS

\* the array with (dx, dy) added to every keypoint that satisfies S and has confidence > 0
Moved(a, S(_), dx, dy) ==
  [p \in DOMAIN a |->
     LET i == (p - 1) \div 3
     IN IF S(i) /\ a[3 * i + 3] > 0
        THEN CASE p = 3 * i + 1 -> a[p] + dx
               [] p = 3 * i + 2 -> a[p] + dy
               [] OTHER -> a[p]
        ELSE a[p]]

MoveBodyOf(pin, pout, f, j) ==
  /\ (Targeted(j) /\ IsArray(before, pin, "pose_keypoints_2d")) =>
       /\ IsArray(heap, pout, "pose_keypoints_2d")
       /\ Array(heap, pout, "pose_keypoints_2d")
            = Moved(Array(before, pin, "pose_keypoints_2d"), InBodyScope,
                    FrameOffset(call.x_offset, f - 1), FrameOffset(call.y_offset, f - 1))
  /\ \A key \in SeqToSet(GroupKeys) :
       IsArray(before, pin, key) =>
         /\ IsArray(heap, pout, key)
         /\ Len(Array(heap, pout, key)) = Len(Array(before, pin, key))
         /\ \A p \in DOMAIN Array(before, pin, key) :
              IsConfidence(p) => Array(heap, pout, key)[p] = Array(before, pin, key)[p]

\* C7: when move completes, the body array of every targeted person of frame f has
\* the frame's offset added to the coordinates of exactly the keypoints that are in
\* scope and have confidence > 0, every other coordinate is the input's, and no
\* confidence of any body, hand or face array of any person differs from the input's.
MoveBody ==
  (SequenceCall("move") /\ err = "none" /\ NonEmptyOffsets /\ KnownPart) =>
    ForEachPerson(MoveBodyOf)

MoveBodyCase(pin, pout, f, j) ==
  /\ Targeted(j) /\ IsArray(before, pin, "pose_keypoints_2d")
  /\ LET a == Array(before, pin, "pose_keypoints_2d")
         b == Array(heap, pout, "pose_keypoints_2d")
     IN /\ 4 \in ScopeIndices /\ a[15] > 0 /\ b[13] = a[13] + 5 /\ b[14] = a[14] - 3
        /\ b[15] = a[15]
        /\ \E i \in ScopeIndices :
             3 * i + 3 <= Len(a) /\ a[3 * i + 3] = 0 /\ b[3 * i + 1] = a[3 * i + 1]
        /\ \E i \in 0..(NumBodyKeypoints - 1) :
             i \notin ScopeIndices /\ a[3 * i + 3] > 0 /\ b[3 * i + 1] = a[3 * i + 1]

\* a move by (5, -3) moved keypoint 4 of a person, left an in-scope keypoint without
\* confidence in place and left a confident keypoint outside the scope in place
MoveBodyWitness ==
  /\ SequenceCall("move") /\ err = "none"
  /\ call.x_offset = Scalar(5) /\ call.y_offset = Scalar(-3)
  /\ SomePerson(MoveBodyCase)

PolicyOffsetsOf(pin, pout, f, j) ==
  (Targeted(j) /\ IsArray(before, pin, "pose_keypoints_2d")) =>
    /\ IsArray(heap, pout, "pose_keypoints_2d")
    /\ \A i \in ScopeIndices :
         LET a == Array(before, pin, "pose_keypoints_2d")
             b == Array(heap, pout, "pose_keypoints_2d")
         IN (3 * i + 3 <= Len(a) /\ a[3 * i + 3] > 0) =>
              /\ b[3 * i + 1] = a[3 * i + 1] + FrameOffset(call.x_offset, f - 1)
              /\ b[3 * i + 2] = a[3 * i + 2] + FrameOffset(call.y_offset, f - 1)

\* C8: under the loop and the repeat policy, a move whose animated offset lists are
\* not empty and differ in length from the frame count N completes, and the offset
\* applied to the in-scope confident body keypoints of frame i is
\* offsets[i mod len(offsets)] under loop and offsets[min(i, len(offsets) - 1)]
\* under repeat.
LoopAndRepeatOffsets ==
  (/\ SequenceCall("move")
   /\ call.list_mismatch_behavior \in {"loop", "repeat"}
   /\ MismatchedOffsets /\ NonEmptyOffsets) =>
    (err = "none" /\ ForEachPerson(PolicyOffsetsOf))

LoopThirdFrameCase(pin, pout, f, j) ==
  /\ f = 3 /\ Targeted(j) /\ IsArray(before, pin, "pose_keypoints_2d")
  /\ \E i \in ScopeIndices :
       /\ 3 * i + 3 <= Len(Array(before, pin, "pose_keypoints_2d"))
       /\ Array(before, pin, "pose_keypoints_2d")[3 * i + 3] > 0
       /\ Array(heap, pout, "pose_keypoints_2d")[3 * i + 1]
            = Array(before, pin, "pose_keypoints_2d")[3 * i + 1] + 1

\* the offsets [1, 2] looped over three frames: a keypoint of the third frame moved by 1
LoopAndRepeatOffsetsWitness ==
  /\ SequenceCall("move") /\ err = "none"
  /\ call.list_mismatch_behavior = "loop"
  /\ call.x_offset.islist /\ OffsetItems(call.x_offset) = <<1, 2>>
  /\ Len(InFrames) = 3
  /\ SomePerson(LoopThirdFrameCase)

\* C9: under the truncate policy, a move whose animated offset lists are not empty and
\* differ in length from the frame count completes for the whole sequence; a frame
\* whose index is >= len(offsets) uses the last value of the list, and the values of
\* a longer list beyond the frame count are dropped.
TruncateClamps ==
  (/\ SequenceCall("move")
   /\ call.list_mismatch_behavior = "truncate"
   /\ MismatchedOffsets /\ NonEmptyOffsets) =>
    (err = "none" /\ ForEachPerson(PolicyOffsetsOf))

LeftHandInScope ==
  \/ call.sel # NoneAddr /\ SelGet(before, call.sel, "include_left_hand", FALSE)
  \/ call.affect_hands /\ 7 \in ScopeIndices
RightHandInScope ==
  \/ call.sel # NoneAddr /\ SelGet(before, call.sel, "include_right_hand", FALSE)
  \/ call.affect_hands /\ 4 \in ScopeIndices
FaceInScope ==
  \/ call.sel # NoneAddr /\ SelGet(before, call.sel, "include_face", FALSE)
  \/ call.affect_face /\ ScopeIndices \cap {0, 14, 15, 16, 17} # {}

GroupScopes ==
  { <<"hand_left_keypoints_2d", LeftHandInScope>>,
    <<"hand_right_keypoints_2d", RightHandInScope>>,
    <<"face_keypoints_2d", FaceInScope>> }

MoveGroupsOf(pin, pout, f, j) ==
  \A g \in GroupScopes :
    IsArray(before, pin, g[1]) =>
      /\ IsArray(heap, pout, g[1])
      /\ Array(heap, pout, g[1])
           = IF Targeted(j) /\ g[2]
             THEN Moved(Array(before, pin, g[1]), AnyKeypoint,
                        FrameOffset(call.x_offset, f - 1), FrameOffset(call.y_offset, f - 1))
             ELSE Array(before, pin, g[1])

\* C10: when move completes, the left hand array of a targeted person has the frame's
\* offset added to every keypoint with confidence > 0 when (a selection is supplied
\* and its include_left_hand flag is set) or (affect_hands and 7 is in body_indices),
\* and is the input's array otherwise; likewise the right hand with
\* include_right_hand and 4, and the face with include_face, affect_face and the
\* head indices {0, 14, 15, 16, 17}.
MoveGroups ==
  (SequenceCall("move") /\ err = "none" /\ NonEmptyOffsets /\ KnownPart) =>
    ForEachPerson(MoveGroupsOf)

WristOnlyCase(pin, pout, f, j) ==
  /\ Targeted(j)
  /\ IsArray(before, pin, "hand_left_keypoints_2d")
  /\ IsArray(before, pin, "hand_right_keypoints_2d")
  /\ LET a == Array(before, pin, "hand_left_keypoints_2d")
         b == Array(heap, pout, "hand_left_keypoints_2d")
     IN a[3] > 0 /\ b[1] = a[1] + 5 /\ a[6] = 0 /\ b[4] = a[4]
  /\ Array(before, pin, "hand_right_keypoints_2d")[3] > 0
  /\ Array(heap, pout, "hand_right_keypoints_2d") = Array(before, pin, "hand_right_keypoints_2d")

\* a move of the left forearm with affect_hands and no selection moved the confident
\* keypoint of a left hand and left its keypoint without confidence and the whole
\* right hand in place
MoveGroupsWitness ==
  /\ SequenceCall("move") /\ err = "none"
  /\ call.sel = NoneAddr /\ call.appendage_type = "left_forearm" /\ call.affect_hands
  /\ call.x_offset = Scalar(5)
  /\ SomePerson(WristOnlyCase)

\* ---------------------------------------------------------------------------
\* Unknown body-part names in move
\* ---------------------------------------------------------------------------

\* the call has no selection and a part name that the catalog does not know
UnknownPart == call.sel = NoneAddr /\ call.appendage_type \notin DOMAIN BODY_PART_GROUPS

\* C11: when move is called on a sequence without a selection, with a part name
\* that is not in the catalog and with scalar offsets, it raises no error and its
\* output equals its input.
UnknownPartMovesNothing ==
  (SequenceCall("move") /\ UnknownPart /\ ~call.x_offset.islist /\ ~call.y_offset.islist) =>
    /\ err = "none"
    /\ Val(heap, result) = Val(before, call.poses[1])

\* ---------------------------------------------------------------------------
\* Attach: frame alignment
\* ---------------------------------------------------------------------------

\* the frames of the base and of the attachment sequence handed to attach
BaseFrames == before[call.poses[1]].items
AttachmentFrames == before[call.poses[2]].items

\* attach was called on two sequences, none of them empty
AttachCall ==
  /\ pc = "attach"
  /\ before[call.poses[1]].kind = "list" /\ before[call.poses[2]].kind = "list"
  /\ Len(BaseFrames) > 0 /\ Len(AttachmentFrames) > 0

\* the base and the attachment frame that output frame i (from 0) is built from
BaseFrameOf(i) == BaseFrames[(i % Len(BaseFrames)) + 1]
AttachmentFrameOf(i) == AttachmentFrames[(i % Len(AttachmentFrames)) + 1]

\* the frame that attach, with the arguments of the call, returns for the base
\* frame b and the attachment frame a alone
AttachedPair(b, a) ==
  LET h1 == Alloc(before, ListObj(<<b>>))
      h2 == Alloc(h1, ListObj(<<a>>))
      r == attach_pose(h2, NewAddr(before), NewAddr(h1), call.attachment_point, call.sel,
                       call.base_person_index, call.attachment_person_index,
                       call.attach_hands, call.attach_face)
  IN Val(r.heap, r.heap[r.ret].items[1])

\* C12: attach on two non-empty sequences returns max(len(base), len(attachment))
\* frames, and output frame i is what attach makes of base frame i mod len(base)
\* and attachment frame i mod len(attachment).
AttachCyclic ==
  AttachCall =>
    /\ err = "none"
    /\ Len(OutFrames) = Max(Len(BaseFrames), Len(AttachmentFrames))
    /\ \A i \in 0..(Len(OutFrames) - 1) :
         Val(heap, OutFrames[i + 1]) = AttachedPair(BaseFrameOf(i), AttachmentFrameOf(i))

\* a base of three frames and an attachment of two: the third output frame is built
\* from the first attachment frame and is not the base frame passed through, and a
\* base of one frame is used again for the second frame of a longer attachment
AttachCyclicWitness ==
  /\ AttachCall /\ err = "none"
  /\ \/ /\ Len(BaseFrames) = 3 /\ Len(AttachmentFrames) = 2
        /\ Val(heap, OutFrames[3]) # Val(before, BaseFrames[3])
        /\ Val(heap, OutFrames[3]) = AttachedPair(BaseFrames[3], AttachmentFrames[1])
        /\ Val(heap, OutFrames[3]) # AttachedPair(BaseFrames[3], AttachmentFrames[2])
     \/ /\ Len(BaseFrames) = 1 /\ Len(AttachmentFrames) = 2
        /\ Val(heap, OutFrames[2]) # Val(before, BaseFrames[1])
        /\ Val(heap, OutFrames[2]) = AttachedPair(BaseFrames[1], AttachmentFrames[2])

\* ---------------------------------------------------------------------------
\* Attach: the anchor keypoint
\* ---------------------------------------------------------------------------

anchor_index == ParseIndex(call.attachment_point)

\* frame has a people list with a person at index k (from 0)
HasPerson(h, frame, k) == HasPeople(h, frame) /\ k < Len(People(h, frame))

\* the base person of output frame i before and after the call, and its donor
BasePerson(i) == People(before, BaseFrameOf(i))[call.base_person_index + 1]
OutPerson(i) == People(heap, OutFrames[i + 1])[call.base_person_index + 1]
Donor(i) == People(before, AttachmentFrameOf(i))[call.attachment_person_index + 1]

\* keypoint k of a flat array as <<x, y, confidence>>
Keypoint(a, k) == <<a[3 * k + 1], a[3 * k + 2], a[3 * k + 3]>>
HasKeypoint(a, k) == Len(a) > 3 * k + 2

\* the base person of output frame i has a body array with the keypoint k
BaseHasKeypoint(i, k) ==
  /\ HasPerson(before, BaseFrameOf(i), call.base_person_index)
  /\ IsArray(before, BasePerson(i), "pose_keypoints_2d")
  /\ HasKeypoint(Array(before, BasePerson(i), "pose_keypoints_2d"), k)

\* the base person is still there in output frame i, with a body array
OutHasBody(i) ==
  /\ HasPerson(heap, OutFrames[i + 1], call.base_person_index)
  /\ IsArray(heap, OutPerson(i), "pose_keypoints_2d")

\* C13: when attach completes with no selection, or with a selection that does not
\* contain the anchor index, the base person's keypoint at the anchor index has in
\* every output frame the x, y and confidence it had in the base frame.
AnchorUnchanged ==
  (AttachCall /\ err = "none"
     /\ (call.sel = NoneAddr \/ anchor_index \notin SelBodyIndices(before, call.sel))) =>
    \A i \in 0..(Len(OutFrames) - 1) :
      BaseHasKeypoint(i, anchor_index) =>
        /\ OutHasBody(i)
        /\ HasKeypoint(Array(heap, OutPerson(i), "pose_keypoints_2d"), anchor_index)
        /\ Keypoint(Array(heap, OutPerson(i), "pose_keypoints_2d"), anchor_index)
             = Keypoint(Array(before, BasePerson(i), "pose_keypoints_2d"), anchor_index)

\* ---------------------------------------------------------------------------
\* Attach: frames passed through
\* ---------------------------------------------------------------------------

\* person has a body array in which keypoint k has confidence > 0
Confident(h, person, k) ==
  /\ IsArray(h, person, "pose_keypoints_2d")
  /\ HasKeypoint(Array(h, person, "pose_keypoints_2d"), k)
  /\ Array(h, person, "pose_keypoints_2d")[3 * k + 3] > 0

\* both frames of output frame i have a people list with the requested person
PersonsFound(i) ==
  /\ HasPerson(before, BaseFrameOf(i), call.base_person_index)
  /\ HasPerson(before, AttachmentFrameOf(i), call.attachment_person_index)

\* the anchor has confidence > 0 in the base person and in the donor of output frame i
AnchorsFound(i) ==
  /\ PersonsFound(i)
  /\ Confident(before, BasePerson(i), anchor_index)
  /\ Confident(before, Donor(i), anchor_index)

\* C14: attach on two non-empty sequences raises no error, and output frame i equals
\* base frame i mod len(base) (body, hands and face untouched) whenever one of the
\* two frames has no people list, or a person index is not an index of its people
\* list, or the anchor keypoint is missing or has confidence <= 0 in the base
\* person or in the attachment person.
AttachPassThrough ==
  AttachCall =>
    /\ err = "none"
    /\ \A i \in 0..(Len(OutFrames) - 1) :
         ~AnchorsFound(i) => Val(heap, OutFrames[i + 1]) = Val(before, BaseFrameOf(i))

\* one call passed a frame through because the donor's anchor has confidence 0 while
\* the base's has not, and another frame because it has no people list
AttachPassThroughWitness ==
  /\ AttachCall /\ err = "none"
  /\ \E i \in 0..(Len(OutFrames) - 1) :
       /\ PersonsFound(i)
       /\ Confident(before, BasePerson(i), anchor_index)
       /\ IsArray(before, Donor(i), "pose_keypoints_2d")
       /\ ~Confident(before, Donor(i), anchor_index)
       /\ Val(heap, OutFrames[i + 1]) = Val(before, BaseFrameOf(i))
  /\ \E i \in 0..(Len(OutFrames) - 1) :
       /\ ~HasPeople(before, BaseFrameOf(i))
       /\ Val(heap, OutFrames[i + 1]) = Val(before, BaseFrameOf(i))

\* a call with a person index that is no index of the people list returned the base
\* frames, people and all
AttachNoPersonWitness ==
  /\ AttachCall /\ err = "none"
  /\ call.attachment_person_index = MaxPeople
  /\ \E i \in 0..(Len(OutFrames) - 1) :
       /\ HasPerson(before, BaseFrameOf(i), call.base_person_index)
       /\ HasPeople(before, AttachmentFrameOf(i))
       /\ Val(heap, OutFrames[i + 1]) = Val(before, BaseFrameOf(i))

\* ---------------------------------------------------------------------------
\* Attach: the transplanted body keypoints
\* ---------------------------------------------------------------------------

BaseBody(i) == Array(before, BasePerson(i), "pose_keypoints_2d")
DonorBody(i) == Array(before, Donor(i), "pose_keypoints_2d")
OutBody(i) == Array(heap, OutPerson(i), "pose_keypoints_2d")

\* base anchor position - attachment anchor position, for output frame i
AnchorOffset(i) ==
  <<BaseBody(i)[3 * anchor_index + 1] - DonorBody(i)[3 * anchor_index + 1],
    BaseBody(i)[3 * anchor_index + 2] - DonorBody(i)[3 * anchor_index + 2]>>

\* the indices to transplant: the selection's body_indices, or without a selection
\* every index that the donor has with confidence > 0
TransplantSet(i) ==
  IF call.sel # NoneAddr THEN SelBodyIndices(before, call.sel)
  ELSE {k \in 0..(Len(DonorBody(i)) \div 3) :
          HasKeypoint(DonorBody(i), k) /\ DonorBody(i)[3 * k + 3] > 0}

\* the donor's keypoint k moved by the anchor offset, with the donor's confidence
Transplant(i, k) ==
  <<DonorBody(i)[3 * k + 1] + AnchorOffset(i)[1], DonorBody(i)[3 * k + 2] + AnchorOffset(i)[2],
    DonorBody(i)[3 * k + 3]>>

\* C15: when attach completes, in every output frame whose base person and donor
\* both have the anchor with confidence > 0, the base person's body array keeps
\* its length; every keypoint k of the transplant set (the selection's body_indices
\* if a selection is given, else the donor's indices with confidence > 0) that both
\* arrays have is (donor_x[k] + dx, donor_y[k] + dy, donor_confidence[k]) with
\* (dx, dy) = base anchor - donor anchor, whatever confidence the base had at k;
\* every other body keypoint is the base's.
AttachTransplant ==
  (AttachCall /\ err = "none") =>
    \A i \in 0..(Len(OutFrames) - 1) :
      AnchorsFound(i) =>
        /\ OutHasBody(i)
        /\ Len(OutBody(i)) = Len(BaseBody(i))
        /\ \A k \in 0..(Len(BaseBody(i)) \div 3) :
             HasKeypoint(BaseBody(i), k) =>
               Keypoint(OutBody(i), k)
                 = IF k \in TransplantSet(i) /\ HasKeypoint(DonorBody(i), k)
                   THEN Transplant(i, k) ELSE Keypoint(BaseBody(i), k)

\* with a selection, a keypoint that the base had without confidence was replaced by
\* the donor's confident keypoint, moved by an offset that is not zero, and a
\* confident keypoint outside the selection stayed where it was
AttachTransplantWitness ==
  /\ AttachCall /\ err = "none" /\ call.sel # NoneAddr
  /\ \E i \in 0..(Len(OutFrames) - 1) :
       /\ AnchorsFound(i)
       /\ AnchorOffset(i)[1] # 0
       /\ \E k \in TransplantSet(i) :
            /\ HasKeypoint(BaseBody(i), k) /\ HasKeypoint(DonorBody(i), k)
            /\ BaseBody(i)[3 * k + 3] = 0 /\ DonorBody(i)[3 * k + 3] > 0
            /\ Keypoint(OutBody(i), k) = Transplant(i, k)
       /\ \E k \in (0..(NumBodyKeypoints - 1)) \ TransplantSet(i) :
            /\ BaseBody(i)[3 * k + 3] > 0
            /\ Keypoint(OutBody(i), k) = Keypoint(BaseBody(i), k)
            /\ Keypoint(OutBody(i), k) # Transplant(i, k)

\* without a selection, the donor's keypoints with confidence > 0 were transplanted
\* and one that the donor has without confidence was left to the base
AttachConfidentWitness ==
  /\ AttachCall /\ err = "none" /\ call.sel = NoneAddr
  /\ \E i \in 0..(Len(OutFrames) - 1) :
       /\ AnchorsFound(i)
       /\ AnchorOffset(i)[1] # 0
       /\ \E k \in TransplantSet(i) \ {anchor_index} :
            Keypoint(OutBody(i), k) = Transplant(i, k)
       /\ \E k \in (0..(NumBodyKeypoints - 1)) \ TransplantSet(i) :
            /\ BaseBody(i)[3 * k + 3] > 0
            /\ Keypoint(OutBody(i), k) = Keypoint(BaseBody(i), k)

\* ---------------------------------------------------------------------------
\* Attach: hands and face
\* ---------------------------------------------------------------------------

\* the hand transplant is triggered by a hand flag of the selection or by
\* attach_hands, the face transplant by the selection's face flag or by attach_face
AttachHands ==
  \/ call.attach_hands
  \/ /\ call.sel # NoneAddr
     /\ \/ SelGet(before, call.sel, "include_left_hand", FALSE)
        \/ SelGet(before, call.sel, "include_right_hand", FALSE)
AttachFace ==
  call.attach_face \/ (call.sel # NoneAddr /\ SelGet(before, call.sel, "include_face", FALSE))

AttachScopes ==
  { <<"hand_left_keypoints_2d", AttachHands>>,
    <<"hand_right_keypoints_2d", AttachHands>>,
    <<"face_keypoints_2d", AttachFace>> }

\* the donor of output frame i has a non-empty array under key
DonorHas(i, key) == IsArray(before, Donor(i), key) /\ Len(Array(before, Donor(i), key)) > 0

\* the array with (dx, dy) added to every keypoint, whatever its confidence
Shifted(a, dx, dy) ==
  [p \in DOMAIN a |-> CASE p % 3 = 1 -> a[p] + dx [] p % 3 = 2 -> a[p] + dy [] OTHER -> a[p]]

Connected == SelectSeq(call.poses, LAMBDA a : a # NoneAddr)

\* the frames of an input: those of a sequence, or the single frame
FramesOf(a) == IF before[a].kind = "list" THEN before[a].items ELSE <<a>>

\* merge was called and none of its inputs is an empty sequence
MergeCall == pc = "merge" /\ \A k \in DOMAIN Connected : Len(FramesOf(Connected[k])) > 0

LongestInput ==
  CHOOSE n \in {Len(FramesOf(Connected[k])) : k \in DOMAIN Connected} :
    \A k \in DOMAIN Connected : Len(FramesOf(Connected[k])) <= n

\* the people (as values) of the frame that input a contributes to output frame i:
\* those of its frame min(i, len - 1), none if that frame has no people list
HeldPeople(a, i) ==
  LET frame == FramesOf(a)[Min(i, Len(FramesOf(a)) - 1) + 1]
  IN IF before[frame].kind = "dict" /\ HasPeople(before, frame)
     THEN [j \in DOMAIN People(before, frame) |-> Val(before, People(before, frame)[j])]
     ELSE <<>>

\* the people of inputs k.. for output frame i, concatenated in input order
RECURSIVE ConcatPeople(_, _)
ConcatPeople(k, i) ==
  IF k > Len(Connected) THEN <<>> ELSE HeldPeople(Connected[k], i) \o ConcatPeople(k + 1, i)

\* C17: merge of inputs none of which is an empty sequence returns as many frames
\* as its longest input has; the people of output frame i are the people of frame
\* min(i, len(s) - 1) of every input s, concatenated in input order with nothing
\* left out, and every output frame has the canvas_width and canvas_height of the
\* call.
MergeHoldLast ==
  MergeCall =>
    /\ err = "none"
    /\ heap[result].kind = "list"
    /\ Len(OutFrames) = LongestInput
    /\ \A i \in 0..(Len(OutFrames) - 1) :
         Val(heap, OutFrames[i + 1])
           = DictObj([people |-> ListObj(ConcatPeople(1, i)),
                      canvas_width |-> call.canvas_width,
                      canvas_height |-> call.canvas_height])

\* a first input of one frame was held for the third frame of a second input of
\* three frames: the people of the third output frame are those of the first
\* input's only frame followed by those of the second input's third frame, and
\* the canvas is the call's, not the inputs'
MergeHoldLastWitness ==
  /\ MergeCall /\ err = "none"
  /\ Len(Connected) >= 2
  /\ Len(FramesOf(Connected[1])) = 1 /\ Len(FramesOf(Connected[2])) = 3
  /\ HeldPeople(Connected[1], 2) # <<>> /\ HeldPeople(Connected[2], 2) # <<>>
  /\ HeldPeople(Connected[1], 2) # HeldPeople(Connected[2], 2)
  /\ SubSeq(Val(heap, OutFrames[3]).fields.people.items, 1, Len(HeldPeople(Connected[1], 0)))
       = HeldPeople(Connected[1], 0)
  /\ call.canvas_width # DefaultWidth
  /\ Val(heap, OutFrames[3]).fields.canvas_width = call.canvas_width

\* ---------------------------------------------------------------------------
\* Smooth: the recurrence
\* ---------------------------------------------------------------------------

\* smooth was called on a sequence and returned
SmoothCall == pc = "smooth" /\ err = "none" /\ before[call.poses[1]].kind = "list"

\* "if POSE_SELECTION:" holds for a selection with at least one field
SmoothSelected == Truthy(before, call.sel)

\* the body indices, and the groups, that the call smooths
SmoothIndices ==
  IF SmoothSelected THEN SelBodyIndices(before, call.sel) ELSE 0..(NumBodyKeypoints - 1)
SmoothHands ==
  \/ call.smooth_hands
  \/ /\ SmoothSelected
     /\ \/ SelGet(before, call.sel, "include_left_hand", FALSE)
        \/ SelGet(before, call.sel, "include_right_hand", FALSE)
SmoothFace ==
  call.smooth_face \/ (SmoothSelected /\ SelGet(before, call.sel, "include_face", FALSE))

\* keypoint k of the array under key is one that the call smooths
InSmoothScope(key, k) ==
  CASE key = "pose_keypoints_2d" -> k \in SmoothIndices
    [] key = "face_keypoints_2d" -> SmoothFace
    [] OTHER -> SmoothHands

\* person j is in frame f (from 1) of the input and in frame f - 1 of the output
InBothFrames(f, j) ==
  /\ HasPeople(heap, OutFrames[f - 1]) /\ j <= Len(People(heap, OutFrames[f - 1]))
  /\ HasPeople(before, InFrames[f]) /\ j <= Len(People(before, InFrames[f]))

PreviousPerson(f, j) == People(heap, OutFrames[f - 1])[j]
CurrentPerson(f, j) == People(before, InFrames[f])[j]
SmoothedPerson(f, j) == People(heap, OutFrames[f])[j]

\* both persons have keypoint k in their array under key; the hand and face arrays
\* are compared only when they have the same length
InBothArrays(f, j, key, k) ==
  /\ InBothFrames(f, j)
  /\ IsArray(heap, PreviousPerson(f, j), key) /\ IsArray(before, CurrentPerson(f, j), key)
  /\ HasKeypoint(Array(heap, PreviousPerson(f, j), key), k)
  /\ HasKeypoint(Array(before, CurrentPerson(f, j), key), k)
  /\ key # "pose_keypoints_2d" =>
       Len(Array(heap, PreviousPerson(f, j), key)) = Len(Array(before, CurrentPerson(f, j), key))

\* the keypoint has confidence > 0 in the previous output frame and in the input frame
Tracked(f, j, key, k) ==
  /\ InBothArrays(f, j, key, k)
  /\ Array(heap, PreviousPerson(f, j), key)[3 * k + 3] > 0
  /\ Array(before, CurrentPerson(f, j), key)[3 * k + 3] > 0

\* out = previous + factor * (current - previous), evaluated in floats
Blended(out, previous, current) ==
  out = FloatAdd(previous, FloatMul(call.smoothing_factor, FloatSub(current, previous)))

\* the output frame has person j with an array under key that holds keypoint k
InOutput(f, j, key, k) ==
  /\ HasPeople(heap, OutFrames[f]) /\ j <= Len(People(heap, OutFrames[f]))
  /\ IsArray(heap, SmoothedPerson(f, j), key)
  /\ HasKeypoint(Array(heap, SmoothedPerson(f, j), key), k)

\* x and y of keypoint k are the previous output's moved by the factor towards the input's
Recurrence(f, j, key, k) ==
  /\ InOutput(f, j, key, k)
  /\ \A c \in 1..2 :
       Blended(Array(heap, SmoothedPerson(f, j), key)[3 * k + c],
               Array(heap, PreviousPerson(f, j), key)[3 * k + c],
               Array(before, CurrentPerson(f, j), key)[3 * k + c])

\* the keypoints of an array of the input frame f
KeypointsOf(f, j, key) ==
  IF InBothFrames(f, j) /\ IsArray(before, CurrentPerson(f, j), key)
  THEN 0..((Len(Array(before, CurrentPerson(f, j), key)) \div 3) - 1) ELSE {}

Everyone == 1..(MaxPeople + 1)

\* C18: when smooth completes on a sequence, the output has the input's length, its
\* first frame is the input's first frame, and for every later frame i and every
\* keypoint that the call targets (a targeted person; a selected body index, or a
\* hand or face keypoint when that group is smoothed) and that has confidence > 0
\* in output frame i - 1 and in input frame i,
\*   out[i] = out[i-1] + factor * (in[i] - out[i-1])   for x and for y.
SmoothRecurrence ==
  SmoothCall =>
    /\ Len(OutFrames) = Len(InFrames)
    /\ Len(InFrames) > 0 => Val(heap, OutFrames[1]) = Val(before, InFrames[1])
    /\ \A f \in 2..Len(InFrames), j \in Everyone, key \in SeqToSet(GroupKeys) :
         \A k \in KeypointsOf(f, j, key) :
           (Targeted(j) /\ InSmoothScope(key, k) /\ Tracked(f, j, key, k)) =>
             Recurrence(f, j, key, k)

\* ---------------------------------------------------------------------------
\* Smooth: what is left alone
\* ---------------------------------------------------------------------------

\* person j of input frame f has an array under key that holds keypoint k
InInput(f, j, key, k) ==
  /\ HasPeople(before, InFrames[f]) /\ j <= Len(People(before, InFrames[f]))
  /\ IsArray(before, CurrentPerson(f, j), key)
  /\ HasKeypoint(Array(before, CurrentPerson(f, j), key), k)

\* the keypoints of an array of person j of input frame f
InputKeypoints(f, j, key) ==
  IF InInput(f, j, key, 0)
  THEN 0..((Len(Array(before, CurrentPerson(f, j), key)) \div 3) - 1) ELSE {}

\* keypoint k of the output is keypoint k of the input: x, y and confidence
Raw(f, j, key, k) ==
  /\ InOutput(f, j, key, k)
  /\ Keypoint(Array(heap, SmoothedPerson(f, j), key), k)
       = Keypoint(Array(before, CurrentPerson(f, j), key), k)

\* the confidence of keypoint k of the output is the input's
SameConfidence(f, j, key, k) ==
  /\ InOutput(f, j, key, k)
  /\ Array(heap, SmoothedPerson(f, j), key)[3 * k + 3]
       = Array(before, CurrentPerson(f, j), key)[3 * k + 3]

\* C19 as stated: when smooth completes on a sequence, for every frame i >= 1 and
\* every keypoint of a body, hand or face array of input frame i, the output's
\* confidence is the input's, and the output's x and y are the input's as well
\* when the keypoint has confidence <= 0 in output frame i - 1 or in input frame
\* i, when it is outside the selection, or when its person is not targeted.
SmoothLeavesAlone ==
  SmoothCall =>
    \A f \in 2..Len(InFrames), j \in Everyone, key \in SeqToSet(GroupKeys) :
      \A k \in InputKeypoints(f, j, key) :
        /\ SameConfidence(f, j, key, k)
        /\ ~(Targeted(j) /\ InSmoothScope(key, k) /\ Tracked(f, j, key, k)) =>
             Raw(f, j, key, k)

\* the focus keypoint of a call in focus-point mode
IsFocus(key, k) ==
  key = "pose_keypoints_2d" /\ call.focus_point # "none" /\ k = ParseIndex(call.focus_point)

\* C19, amended: when smooth completes on a sequence, for every frame i >= 1 and
\* every keypoint of a body, hand or face array of input frame i, the output's
\* confidence is the input's, and the output's x and y are the input's as well
\* when the keypoint has confidence <= 0 in output frame i - 1 or in input frame
\* i, when its person is not targeted, or when it is outside the selection and is
\* not the focus keypoint of focus-point mode.
SmoothLeavesOthersAlone ==
  SmoothCall =>
    \A f \in 2..Len(InFrames), j \in Everyone, key \in SeqToSet(GroupKeys) :
      \A k \in InputKeypoints(f, j, key) :
        /\ SameConfidence(f, j, key, k)
        /\ ~(Targeted(j) /\ (InSmoothScope(key, k) \/ IsFocus(key, k)) /\ Tracked(f, j, key, k)) =>
             Raw(f, j, key, k)

\* keypoint k was moved: its x in the output is not the input's
Smoothed(f, j, key, k) ==
  /\ InOutput(f, j, key, k)
  /\ Array(heap, SmoothedPerson(f, j), key)[3 * k + 1]
       # Array(before, CurrentPerson(f, j), key)[3 * k + 1]

\* with a selection, a targeted person's left hand has its confident keypoint
\* smoothed and its keypoint without confidence left at the input's values, a
\* confident body keypoint in the selection is smoothed and one outside is not,
\* while another person of the frame, not targeted, is the input's throughout
SmoothLeavesOthersAloneWitness ==
  /\ SmoothCall /\ SmoothSelected /\ call.person_index # -1
  /\ \E f \in 2..Len(InFrames), j \in Everyone :
       /\ Targeted(j)
       /\ Tracked(f, j, "hand_left_keypoints_2d", 0)
       /\ Smoothed(f, j, "hand_left_keypoints_2d", 0)
       /\ InInput(f, j, "hand_left_keypoints_2d", 1)
       /\ Array(before, CurrentPerson(f, j), "hand_left_keypoints_2d")[6] = 0
       /\ Raw(f, j, "hand_left_keypoints_2d", 1)
       /\ \E k \in SmoothIndices : Smoothed(f, j, "pose_keypoints_2d", k)
       /\ \E k \in (0..(NumBodyKeypoints - 1)) \ SmoothIndices :
            Tracked(f, j, "pose_keypoints_2d", k) /\ Raw(f, j, "pose_keypoints_2d", k)
       /\ \E j2 \in Everyone :
            /\ ~Targeted(j2) /\ Tracked(f, j2, "pose_keypoints_2d", 0)
            /\ Val(heap, SmoothedPerson(f, j2)) = Val(before, CurrentPerson(f, j2))

\* in focus-point mode the focus keypoint was smoothed although the selection does
\* not contain it
FocusOutsideSelectionWitness ==
  /\ SmoothCall /\ SmoothSelected /\ call.focus_point # "none"
  /\ ParseIndex(call.focus_point) \notin SmoothIndices
  /\ \E f \in 2..Len(InFrames), j \in Everyone :
       /\ Targeted(j)
       /\ Tracked(f, j, "pose_keypoints_2d", ParseIndex(call.focus_point))
       /\ Smoothed(f, j, "pose_keypoints_2d", ParseIndex(call.focus_point))

\* ---------------------------------------------------------------------------
\* Smooth: focus-point mode
\* ---------------------------------------------------------------------------

\* what smooth returns for the arguments of the call with focus_point "none"
WithoutFocus ==
  smooth_pose(before, call.poses[1], call.smoothing_factor, call.sel, "none",
              call.person_index, call.smooth_hands, call.smooth_face)

\* C20: smooth called on a sequence with a focus point that is one of the selected
\* body indices raises no error and returns the sequence that the same call
\* returns without a focus point.
FocusOnlyOrders ==
  (pc = "smooth" /\ before[call.poses[1]].kind = "list" /\ call.focus_point # "none"
     /\ ParseIndex(call.focus_point) \in SmoothIndices) =>
    /\ err = "none"
    /\ Val(heap, result) = Val(WithoutFocus.heap, WithoutFocus.ret)

\* ---------------------------------------------------------------------------
\* Custom selections
\* ---------------------------------------------------------------------------

\* the selector node built a custom selection with include_torso passed as true
TorsoCall ==
  /\ pc = "select" /\ call.selection_type = "custom"
  /\ "include_torso" \in DOMAIN call.kwargs /\ call.kwargs["include_torso"]

OtherToggles == PartToggles \ {"include_torso"}

\* the list body_indices of the selection that was built
BuiltIndices == heap[heap[result].fields["body_indices"]].items

\* C21 as stated: a custom selection built with include_torso = true and every other
\* body-part checkbox either passed as false or not passed at all has the
\* body_indices <<1, 2, 5, 8, 11>>.
TorsoOnlyWhateverDefaults ==
  (TorsoCall /\ \A t \in OtherToggles \cap DOMAIN call.kwargs : ~call.kwargs[t]) =>
    /\ err = "none"
    /\ BuiltIndices = <<1, 2, 5, 8, 11>>

\* C21, amended: a custom selection built with include_torso = true and every other
\* body-part checkbox passed as false has the body_indices <<1, 2, 5, 8, 11>>
\* (sorted, no duplicates); a checkbox that is not passed counts as true, so with
\* include_torso alone passed the selection has all 18 indices, sorted.
TorsoOnlyOthersOff ==
  TorsoCall =>
    /\ err = "none"
    /\ (OtherToggles \subseteq DOMAIN call.kwargs /\ \A t \in OtherToggles : ~call.kwargs[t]) =>
         BuiltIndices = <<1, 2, 5, 8, 11>>
    /\ OtherToggles \cap DOMAIN call.kwargs = {} =>
         BuiltIndices = RangeList(NumBodyKeypoints)

\* the torso alone was selected, every other checkbox passed as false, the neck's
\* among them: the neck index 1 is there once, as a member of the torso group
TorsoOnlyOthersOffWitness ==
  /\ TorsoCall /\ err = "none"
  /\ OtherToggles \subseteq DOMAIN call.kwargs /\ \A t \in OtherToggles : ~call.kwargs[t]
  /\ BuiltIndices = <<1, 2, 5, 8, 11>>

\* ---------------------------------------------------------------------------
\* Shape preservation
\* ---------------------------------------------------------------------------

\* filter, move or smooth was called on a sequence and returned
ShapeCall ==
  /\ pc \in {"filter", "filter2", "move", "smooth"}
  /\ err = "none"
  /\ before[call.poses[1]].kind = "list"

\* the places of a flat array that the node may write: the confidences for filter,
\* x and y for move and smooth
MayDiffer(p) == IF call.node = "filter" THEN IsConfidence(p) ELSE ~IsConfidence(p)

\* the output person has the keys of the input person, and under each key what the
\* input has: None, or an array of the same length that differs from the input's
\* only in the places the node may write
SameShape(pin, pout, f, j) ==
  /\ DOMAIN heap[pout].fields = DOMAIN before[pin].fields
  /\ \A key \in DOMAIN before[pin].fields :
       /\ heap[heap[pout].fields[key]].kind = before[before[pin].fields[key]].kind
       /\ IsArray(before, pin, key) =>
            /\ Len(Array(heap, pout, key)) = Len(Array(before, pin, key))
            /\ \A p \in DOMAIN Array(before, pin, key) :
                 ~MayDiffer(p) => Array(heap, pout, key)[p] = Array(before, pin, key)[p]

\* C22: when filter, move or smooth completes on a sequence whose keypoint arrays
\* hold whole triplets, the output has as many frames as the input, each frame has
\* a people list exactly when the input's has and then with as many people, each
\* person has the same keypoint groups, and each array has the input's length;
\* filter leaves every x and y as it was, move and smooth every confidence.
ShapePreserved == ShapeCall => ForEachPerson(SameShape)

\* a person's arrays hold whole triplets and one of them was changed by the call
Reshaped(pin, pout, f, j) ==
  /\ \A key \in DOMAIN before[pin].fields :
       IsArray(before, pin, key) => Len(Array(before, pin, key)) % 3 = 0
  /\ \E key \in DOMAIN before[pin].fields :
       /\ IsArray(before, pin, key)
       /\ Array(heap, pout, key) # Array(before, pin, key)

\* smooth on a sequence of MaxFrames frames changed an array of a person who has a
\* group set to None and a group missing
ShapePreservedWitness ==
  /\ ShapeCall /\ pc = "smooth" /\ Len(InFrames) = MaxFrames
  /\ SomePerson(LAMBDA pin, pout, f, j :
       /\ Reshaped(pin, pout, f, j)
       /\ \E key \in DOMAIN before[pin].fields : ~IsArray(before, pin, key)
       /\ DOMAIN before[pin].fields # SeqToSet(GroupKeys))

\* filter and move changed an array of a person as well
ShapeFilterWitness == ShapeCall /\ pc = "filter" /\ SomePerson(Reshaped)
ShapeMoveWitness == ShapeCall /\ pc = "move" /\ SomePerson(Reshaped)

\* ---------------------------------------------------------------------------
\* Smooth: factor 0
\* ---------------------------------------------------------------------------

\* body keypoint k of person j of input frame f has confidence > 0
SeenIn(f, j, k) ==
  /\ InInput(f, j, "pose_keypoints_2d", k)
  /\ Array(before, CurrentPerson(f, j), "pose_keypoints_2d")[3 * k + 3] > 0

\* body keypoint k of person j is in input frame f with confidence <= 0
LostIn(f, j, k) ==
  /\ InInput(f, j, "pose_keypoints_2d", k)
  /\ Array(before, CurrentPerson(f, j), "pose_keypoints_2d")[3 * k + 3] <= 0

\* the keypoint has confidence > 0 in each of the input frames s..f
SeenThroughout(s, f, j, k) == \A g \in s..f : SeenIn(g, j, k)

\* x and y of body keypoint k of output frame f are those of input frame s
HeldFrom(s, f, j, k) ==
  /\ InOutput(f, j, "pose_keypoints_2d", k)
  /\ \A c \in 1..2 :
       Array(heap, SmoothedPerson(f, j), "pose_keypoints_2d")[3 * k + c]
         = Array(before, CurrentPerson(s, j), "pose_keypoints_2d")[3 * k + c]

\* smooth completed on a sequence with smoothing_factor 0
ZeroFactorCall == SmoothCall /\ call.smoothing_factor.num = 0

MovesBetween(s, f, j, k) ==
  \E c \in 1..2 :
    Array(before, CurrentPerson(s, j), "pose_keypoints_2d")[3 * k + c]
      # Array(before, CurrentPerson(f, j), "pose_keypoints_2d")[3 * k + c]

\* with factor 0 a keypoint that is confident in all MaxFrames input frames, and is
\* elsewhere in the last of them, is in the last output frame where input frame 0
\* has it
ZeroFactorHeldWitness ==
  /\ ZeroFactorCall /\ Len(InFrames) = MaxFrames
  /\ \E j \in Everyone, k \in SmoothIndices :
       /\ Targeted(j)
       /\ SeenThroughout(1, MaxFrames, j, k)
       /\ MovesBetween(1, MaxFrames, j, k)
       /\ HeldFrom(1, MaxFrames, j, k)

\* with factor 0 a keypoint that is confident in input frame 0, without confidence
\* in the next frame and confident again in the one after, is in that output frame
\* where its input frame has it, and not where input frame 0 has it
ZeroFactorGapWitness ==
  /\ ZeroFactorCall
  /\ \E j \in Everyone, k \in SmoothIndices, s \in 3..Len(InFrames) :
       /\ Targeted(j)
       /\ SeenIn(1, j, k) /\ LostIn(s - 1, j, k) /\ SeenIn(s, j, k)
       /\ MovesBetween(1, s, j, k)
       /\ HeldFrom(s, s, j, k)

InputArray(f, j, key) ==
  IF InInput(f, j, key, 0) THEN Array(before, CurrentPerson(f, j), key) ELSE <<>>
OutputArray(f, j, key) ==
  IF InOutput(f, j, key, 0) THEN Array(heap, SmoothedPerson(f, j), key) ELSE <<>>

\* the arrays under key of person j in the input frames and in the output frames,
\* as sequences
InputArrays(j, key) == <<>> \o [f \in 1..Len(InFrames) |-> InputArray(f, j, key)]
OutputArrays(j, key) == <<>> \o [f \in 1..Len(InFrames) |-> OutputArray(f, j, key)]

\* the array a holds the keypoint that place p belongs to
Holds(a, p) == p <= 3 * (Len(a) \div 3)

\* the places of the x and y values of the keypoints of the array a
Coordinates(a) == {p \in 1..(3 * (Len(a) \div 3)) : ~IsConfidence(p)}

\* v lies between a and b, by at most slack outside
Within(v, a, b, slack) == Min(a, b) - slack <= v /\ v <= Max(a, b) + slack

\* the difference current - previous is a float: a multiple of the distance
\* between the floats of its magnitude
ExactDifference(previous, current) ==
  (current - previous) % Ulp(Abs(current - previous)) = 0

\* place p of output frame f lies between the previous output's and the input's;
\* ins and outs are the arrays of the input and output frames
NoOvershootAt(ins, outs, f, p) ==
  (f > 1 /\ Holds(outs[f - 1], p) /\ Holds(ins[f], p)) =>
    Within(outs[f][p], outs[f - 1][p], ins[f][p], 0)

\* place p of output frame f lies between the least and the greatest of its values
\* in the input frames 0..f
InInputRange(ins, outs, f, p) ==
  /\ \E g \in 1..f : Holds(ins[g], p) /\ ins[g][p] <= outs[f][p]
  /\ \E g \in 1..f : Holds(ins[g], p) /\ outs[f][p] <= ins[g][p]

\* every x and y of the output arrays outs of a person is between the previous
\* output's and the input's, and in the range of the inputs ins so far
NoOvershootIn(ins, outs) ==
  \A f \in DOMAIN outs :
    \A p \in Coordinates(outs[f]) :
      /\ NoOvershootAt(ins, outs, f, p)
      /\ InInputRange(ins, outs, f, p)

\* C24 as stated: when smooth completes on a sequence, for every factor, every
\* frame i >= 1 and every keypoint coordinate, the output value lies between the
\* previous output value and the current input value (inclusive), and every
\* output coordinate lies between the minimum and the maximum of that coordinate
\* over the input frames 0..i.
NoOvershoot ==
  SmoothCall =>
    \A j \in Everyone, key \in SeqToSet(GroupKeys) :
      NoOvershootIn(InputArrays(j, key), OutputArrays(j, key))

\* in every frame up to f that holds place p, the difference between the input
\* and the previous output is a float
ExactUpTo(ins, outs, f, p) ==
  \A g \in 2..f :
    (Holds(outs[g - 1], p) /\ Holds(ins[g], p)) => ExactDifference(outs[g - 1][p], ins[g][p])

\* place p of output frame f lies between the previous output's and the input's
\* when their difference is a float, and otherwise no further outside them than
\* one rounding step of the difference
NoOvershootBeyond(ins, outs, f, p) ==
  (f > 1 /\ Holds(outs[f - 1], p) /\ Holds(ins[f], p)) =>
    Within(outs[f][p], outs[f - 1][p], ins[f][p],
           IF ExactDifference(outs[f - 1][p], ins[f][p]) THEN 0
           ELSE Ulp(Abs(ins[f][p] - outs[f - 1][p])))

\* every x and y of the output arrays outs of a person is between the previous
\* output's and the input's or a rounding step outside, and in the range of the
\* inputs ins so far when no difference was rounded
NoOvershootBeyondIn(ins, outs) ==
  \A f \in DOMAIN outs :
    \A p \in Coordinates(outs[f]) :
      /\ NoOvershootBeyond(ins, outs, f, p)
      /\ ExactUpTo(ins, outs, f, p) => InInputRange(ins, outs, f, p)

\* C24, amended: when smooth completes on a sequence, for every factor, every frame
\* i >= 1 and every keypoint coordinate, the output value lies between the previous
\* output value and the current input value (inclusive) when their difference is
\* computed without rounding, and no further outside them than one rounding step
\* of that difference when it is not; every output coordinate whose differences
\* were computed without rounding in the frames 1..i lies between the minimum and
\* the maximum of that coordinate over the input frames 0..i.
NoOvershootBeyondRounding ==
  SmoothCall =>
    \A j \in Everyone, key \in SeqToSet(GroupKeys) :
      NoOvershootBeyondIn(InputArrays(j, key), OutputArrays(j, key))

\* the place of coordinate c (1 for x, 2 for y) of keypoint k
Place(k, c) == 3 * k + c

\* the body arrays of person j in the input frames and in the output frames
BodyIn(j) == InputArrays(j, "pose_keypoints_2d")
BodyOut(j) == OutputArrays(j, "pose_keypoints_2d")

\* a call with a factor strictly between 0 and 1 on MaxFrames frames left a body
\* coordinate of the last frame, its differences computed without rounding,
\* strictly between the previous output and the input
NoOvershootWitness ==
  /\ SmoothCall /\ Len(InFrames) = MaxFrames
  /\ call.smoothing_factor.num # 0 /\ call.smoothing_factor.num # call.smoothing_factor.den
  /\ \E j \in Everyone, k \in SmoothIndices, c \in 1..2 :
       /\ Targeted(j)
       /\ Tracked(MaxFrames, j, "pose_keypoints_2d", k)
       /\ ExactUpTo(BodyIn(j), BodyOut(j), MaxFrames, Place(k, c))
       /\ NoOvershootAt(BodyIn(j), BodyOut(j), MaxFrames, Place(k, c))
       /\ BodyOut(j)[MaxFrames][Place(k, c)] # BodyOut(j)[MaxFrames - 1][Place(k, c)]
       /\ BodyOut(j)[MaxFrames][Place(k, c)] # BodyIn(j)[MaxFrames][Place(k, c)]
       /\ InInputRange(BodyIn(j), BodyOut(j), MaxFrames, Place(k, c))

\* a call with factor 1 left a body coordinate, its difference rounded, outside the
\* previous output and the input, one rounding step of the difference away at most
RoundedOvershootWitness ==
  /\ SmoothCall /\ call.smoothing_factor.num = call.smoothing_factor.den
  /\ \E f \in 2..Len(InFrames), j \in Everyone, k \in SmoothIndices, c \in 1..2 :
       /\ Targeted(j)
       /\ Tracked(f, j, "pose_keypoints_2d", k)
       /\ ~ExactDifference(BodyOut(j)[f - 1][Place(k, c)], BodyIn(j)[f][Place(k, c)])
       /\ ~NoOvershootAt(BodyIn(j), BodyOut(j), f, Place(k, c))
       /\ NoOvershootBeyond(BodyIn(j), BodyOut(j), f, Place(k, c))

====
